---------------------------- MODULE Spec2Model ----------------------------
(***************************************************************************)
(* A model of envmatic: the vault of env files (envfile service), its      *)
(* manifest, the git-backed replication (git service), the link registry   *)
(* (linker and config services), the encryption envelope and the file      *)
(* protection service, together with the commands that compose them.       *)
(*                                                                         *)
(* The services are written as operators on a "world" record w that holds  *)
(* every file the program reads or writes; an operator returns the world   *)
(* after the call.  A thrown Error is the field err (its message, "" when  *)
(* nothing was thrown) and a return value is the field val.  A command is  *)
(* one action: it threads the world through the calls the handler makes.   *)
(*                                                                         *)
(* Left out: timestamps (createdAt, updatedAt), descriptions, console      *)
(* output, and directories (ensureDir).                                    *)
(***************************************************************************)
EXTENDS Naturals, Sequences, FiniteSets, TLC

VARIABLES
  cfg,        \* ~/.envmatic/config.json
  manifest,   \* vault/.envmatic-manifest.json (working tree)
  blobs,      \* vault/<id>[.enc] (working tree)
  locked,     \* vault paths whose write permission is removed (on Windows:
              \* whose read-only attribute is set)
  uchg,       \* vault paths whose user-immutable flag is set (macOS)
  host,       \* os.platform() of the machine, and whether chflags works on it
  salt,       \* vault/.envmatic-salt (working tree); 0 when absent
  nsalt,      \* how many salts crypto.randomBytes has produced so far
  vault,      \* VAULT_PATH: "absent", "dir" (no .git) or "repo"
  head,       \* the tree of the local HEAD commit
  log,        \* the local branch: commit ids, oldest first
  upstream,   \* the remote-tracking ref origin/main, when one is recorded
  remote,     \* the remote's branch: commit ids, oldest first
  remoteTree, \* the tree of the remote's tip
  links,      \* ~/.envmatic/links.json
  fs,         \* the files outside the vault that links are made at
  ret         \* what the last call was and how it ended

vars == <<cfg, manifest, blobs, locked, uchg, host, salt, nsalt, vault, head, log,
          upstream, remote, remoteTree, links, fs, ret>>

(***************************************************************************)
(* Bounds of the model.                                                    *)
(***************************************************************************)
MaxCommits == 5
MaxSalts == 2

(***************************************************************************)
(* Constants of the program.                                               *)
(***************************************************************************)
ENCRYPTED_EXT == ".enc"
DEFAULT_NAME == ".env"

(***************************************************************************)
(* The inputs the model draws from.  A project or environment is a string  *)
(* and may hold a "/" (--project and --environment are not validated).     *)
(***************************************************************************)
Projects == {"a", "a/b"}
Environments == {"b/c", "c"}
Names == {DEFAULT_NAME}
Keys == {"PORT"}
Values == {"3000", "a b"}
Passwords == {"correctpw12", "wrongpw123"}

SeqToSet(s) == {s[i] : i \in 1..Len(s)}

Max(S) == IF S = {} THEN 0 ELSE CHOOSE m \in S : \A n \in S : n <= m

(***************************************************************************)
(* envfile service: ids, paths and the .env text format.                   *)
(***************************************************************************)
generateFileId(project, environment, name) ==
  project \o "/" \o environment \o "/" \o name

getEnvFilePath(fileId, encrypted) ==
  fileId \o (IF encrypted THEN ENCRYPTED_EXT ELSE "")

FileIds == {generateFileId(p, e, n) : p \in Projects, e \in Environments, n \in Names}

VaultPaths == {getEnvFilePath(id, enc) : id \in FileIds, enc \in BOOLEAN}

\* Record<string, string>: a function from some of the keys to values.
VarSets == UNION {[K -> Values] : K \in SUBSET Keys}

\* value.includes(' ') || '#' || '\n' || '"' || "'"
needsQuotes(value) == value \in {"a b"}

quoted(value) == "\"" \o value \o "\""

\* One line of .env text per variable: KEY=value or KEY="value".
serializeEnvContent(variables) ==
  {[key |-> k,
    text |-> IF needsQuotes(variables[k]) THEN quoted(variables[k]) ELSE variables[k]]
     : k \in DOMAIN variables}

\* dotenv's parse: a value wrapped in quotes loses them.
unquote(text) ==
  IF \E v \in Values : quoted(v) = text
    THEN CHOOSE v \in Values : quoted(v) = text
    ELSE text

parseEnvContent(content) ==
  [k \in {l.key : l \in content} |->
     unquote((CHOOSE l \in content : l.key = k).text)]

(***************************************************************************)
(* File contents.  A vault blob is absent, .env text, or an envelope       *)
(* iv || authTag || ciphertext, which opens under the key it was sealed    *)
(* with and under no other.                                                *)
(***************************************************************************)
\* The machines: Linux, Windows, and macOS with and without a working chflags.
Linux == [platform |-> "linux", chflags |-> FALSE]
Hosts ==
  {Linux, [platform |-> "windows", chflags |-> FALSE],
   [platform |-> "macos", chflags |-> TRUE], [platform |-> "macos", chflags |-> FALSE]}

NoFile == [kind |-> "none"]
PlainFile(text) == [kind |-> "plain", text |-> text]

\* AES-256-GCM, symbolically.  The ciphertext of a text is a term of the key
\* and IV it was produced under; bytes is "written" until something alters
\* the bytes.  The auth tag is a term of the key, the IV and the ciphertext
\* it was computed over.
Ciphertext(key, iv, text) == [key |-> key, iv |-> iv, text |-> text, bytes |-> "written"]
AuthTag(key, iv, encrypted) == [key |-> key, iv |-> iv, encrypted |-> encrypted]

\* What encrypt returns: IV + AuthTag + encrypted data.
Envelope(iv, key, text) ==
  [kind |-> "sealed", iv |-> iv,
   authTag |-> AuthTag(key, iv, Ciphertext(key, iv, text)),
   encrypted |-> Ciphertext(key, iv, text)]

NoOptions == [method |-> "none", password |-> "", sshKeyPath |-> ""]
PasswordOptions(p) == [method |-> "password", password |-> p, sshKeyPath |-> ""]
SshOptions(k) == [method |-> "ssh", password |-> "", sshKeyPath |-> k]

NoConfig ==
  [exists |-> FALSE, encryptionEnabled |-> FALSE, encryptionMethod |-> "none",
   sshKeyPath |-> "", immutableByDefault |-> FALSE]

\* encryptionMethod and sshKeyPath are undefined ("none", "") when the
\* prompts did not ask for them.
createInitialConfig(encryptionEnabled, encryptionMethod, sshKeyPath, immutableByDefault) ==
  [exists |-> TRUE, encryptionEnabled |-> encryptionEnabled,
   encryptionMethod |-> encryptionMethod, sshKeyPath |-> sshKeyPath,
   immutableByDefault |-> immutableByDefault]

EmptyManifest == [exists |-> FALSE, files |-> <<>>, projects |-> <<>>]

NoBlobs == [p \in VaultPaths |-> NoFile]

EmptyTree == [manifest |-> EmptyManifest, blobs |-> NoBlobs, salt |-> 0]

NoUpstream == [set |-> FALSE, at |-> <<>>]
Upstream(commits) == [set |-> TRUE, at |-> commits]

\* What the last call was (op, the file id and the target it was given) and
\* how it ended: ok, or the message thrown or printed; how is the path a
\* command took where it has more than one; res is the value returned where
\* a claim reads it, and calls the git commands the call ran, in order.
NoRet ==
  [op |-> "none", ok |-> TRUE, err |-> "", id |-> "", target |-> "", how |-> "",
   res |-> 0, calls |-> <<>>]

(***************************************************************************)
(* The world record and errors.  Besides the files, a world holds what one *)
(* call meets and leaves: calls, the git commands it has run so far;       *)
(* online, whether the remote answers during the call; readonly, the paths *)
(* outside the vault that refuse a write during the call; rejects, the git *)
(* command of initRepository that fails during the call.                   *)
(***************************************************************************)
World ==
  [cfg |-> cfg, manifest |-> manifest, blobs |-> blobs, locked |-> locked,
   uchg |-> uchg, host |-> host,
   salt |-> salt, nsalt |-> nsalt, vault |-> vault, head |-> head, log |-> log,
   upstream |-> upstream, remote |-> remote, remoteTree |-> remoteTree,
   links |-> links, fs |-> fs, err |-> "", val |-> 0,
   calls |-> <<>>, online |-> TRUE, readonly |-> {}, rejects |-> "none"]

Ok(w) == w.err = ""
Throw(w, message) == [w EXCEPT !.err = message]
Return(w, value) == [w EXCEPT !.val = value]
Caught(w) == [w EXCEPT !.err = ""]

\* fs.pathExists(CONFIG_FILE)
isConfigured(w) == w.cfg.exists

\* The call runs a git command.
called(w, command) == [w EXCEPT !.calls = Append(@, command)]

\* The tracked files of the working tree (what git add . stages).
Tree(w) == [manifest |-> w.manifest, blobs |-> w.blobs, salt |-> w.salt]


(***************************************************************************)
(* Sequencing.  Bind runs the next step on the world a step returned       *)
(* unless the step threw; Either also gives the catch block.               *)
(***************************************************************************)
Bind(w, Step(_)) == IF Ok(w) THEN Step(w) ELSE w

Either(w, Step(_), Handler(_)) == IF Ok(w) THEN Step(w) ELSE Handler(w)

(***************************************************************************)
(* encryption service.  A key is what PBKDF2 derives from the secret (the  *)
(* password, or the bytes of the key file) and the vault's salt.           *)
(***************************************************************************)
SshKeyFiles == {"~/.ssh/id_rsa"}

\* getSalt: the salt file when there is one, else a new random salt, which
\* is written to the vault directory (creating the directory).
getSalt(w) ==
  IF w.salt # 0
    THEN Return(w, w.salt)
    ELSE Return([w EXCEPT !.salt = w.nsalt + 1,
                          !.nsalt = w.nsalt + 1,
                          !.vault = IF @ = "absent" THEN "dir" ELSE @],
                w.nsalt + 1)

deriveKeyFromPassword(w, password) ==
  Bind(getSalt(w), LAMBDA x : Return(x, [material |-> password, salt |-> x.val]))

deriveKeyFromSSH(w, sshKeyPath) ==
  IF sshKeyPath \notin SshKeyFiles
    THEN Throw(w, "ENOENT: no such file or directory")
    ELSE Bind(getSalt(w),
              LAMBDA x : Return(x, [material |-> sshKeyPath, salt |-> x.val]))

getEncryptionKey(w, options) ==
  IF options.method = "ssh" /\ options.sshKeyPath # ""
    THEN deriveKeyFromSSH(w, options.sshKeyPath)
  ELSE IF options.method = "password" /\ options.password # ""
    THEN deriveKeyFromPassword(w, options.password)
  ELSE Throw(w, "Invalid encryption options: password or SSH key path required")

\* encrypt with an IV of zeros instead of a random one.
encrypt_FixedIv(w, data, options, iv) ==
  Bind(getEncryptionKey(w, options),
       LAMBDA x : Return(x, Envelope(0, x.val, data)))

\* iv is what crypto.randomBytes(IV_LENGTH) returns.
encrypt(w, data, options, iv) ==
  Bind(getEncryptionKey(w, options),
       LAMBDA x : Return(x, Envelope(iv, x.val, data)))

\* What deciphering gives under another key or IV, or from altered bytes:
\* a text that is no line anyone wrote.
Garbled == {[key |-> "?", text |-> "?"]}

\* decipher.update: the text, when the ciphertext is decrypted under the
\* key and IV it was produced under and its bytes are as written.
deciphered(key, iv, encrypted) ==
  IF encrypted.key = key /\ encrypted.iv = iv /\ encrypted.bytes = "written"
    THEN encrypted.text
    ELSE Garbled

\* decrypt without setAuthTag and final: nothing is verified.
decrypt_Unverified(w, encryptedData, options) ==
  Bind(getEncryptionKey(w, options),
       LAMBDA x : IF encryptedData.kind = "sealed"
                    THEN Return(x, deciphered(x.val, encryptedData.iv,
                                              encryptedData.encrypted))
                    ELSE Throw(x, "Unsupported state or unable to authenticate data"))

\* decipher.final() throws unless the auth tag is the tag of the ciphertext
\* under the key derived from the options and the IV of the envelope.  Data
\* that is no envelope has no such tag.
decrypt(w, encryptedData, options) ==
  Bind(getEncryptionKey(w, options),
       LAMBDA x : IF /\ encryptedData.kind = "sealed"
                     /\ encryptedData.authTag =
                          AuthTag(x.val, encryptedData.iv, encryptedData.encrypted)
                    THEN Return(x, deciphered(x.val, encryptedData.iv,
                                              encryptedData.encrypted))
                    ELSE Throw(x, "Unsupported state or unable to authenticate data"))

verifyEncryption(w, options, iv) ==
  Either(Bind(encrypt(w, "envmatic-verification-test", options, iv),
              LAMBDA x : decrypt(x, x.val, options)),
         LAMBDA x : Return(x, x.val = "envmatic-verification-test"),
         LAMBDA x : Return(Caught(x), FALSE))

(***************************************************************************)
(* git service: manifest and commit.                                       *)
(***************************************************************************)
NotARepoError == "fatal: not a git repository"

\* The id a new commit gets: one no branch holds yet.
NewCommit(w) ==
  1 + Max(SeqToSet(w.log) \cup SeqToSet(w.remote) \cup SeqToSet(w.upstream.at))

getManifest(w) ==
  IF w.manifest.exists THEN w.manifest ELSE EmptyManifest

saveManifest(w, m) ==
  [w EXCEPT !.manifest = [m EXCEPT !.exists = TRUE]]

\* commitChanges without the commit: the changes stay in the working tree.
commitChanges_NoCommit(w) ==
  IF w.vault # "repo" THEN Throw(w, NotARepoError) ELSE w

\* commitChanges without the look at the status: it commits a clean tree.
commitChanges_Always(w) ==
  IF w.vault # "repo" THEN Throw(w, NotARepoError)
  ELSE called([w EXCEPT !.head = Tree(w), !.log = Append(@, NewCommit(w))], "commit")

\* git add . ; nothing to commit when the status lists no file.
commitChanges(w) ==
  IF w.vault # "repo" THEN Throw(w, NotARepoError)
  ELSE IF Tree(w) = w.head THEN w
  ELSE called([w EXCEPT !.head = Tree(w), !.log = Append(@, NewCommit(w))], "commit")

(***************************************************************************)
(* Files of the vault.                                                     *)
(***************************************************************************)
\* fs.writeFile: refused for a file whose write permission is removed or
\* whose user-immutable flag is set.
writeVaultFile(w, path, content) ==
  IF path \in w.locked
    THEN Throw(w, "EACCES: permission denied")
  ELSE IF path \in w.uchg
    THEN Throw(w, "EPERM: operation not permitted")
    ELSE [w EXCEPT !.blobs[path] = content,
                   !.vault = IF @ = "absent" THEN "dir" ELSE @]

\* fs.remove: removing needs no write permission on the file itself.
removeVaultFile(w, path) ==
  [w EXCEPT !.blobs[path] = NoFile, !.locked = @ \ {path}, !.uchg = @ \ {path}]

vaultPathExists(w, path) == w.blobs[path] # NoFile

(***************************************************************************)
(* envfile service.                                                        *)
(***************************************************************************)
EnvFile(id, name, project, environment, encrypted, immutable) ==
  [id |-> id, name |-> name, project |-> project, environment |-> environment,
   encrypted |-> encrypted, immutable |-> immutable]

findIndex(files, fileId) ==
  IF \E i \in 1..Len(files) : files[i].id = fileId
    THEN CHOOSE i \in 1..Len(files) :
           files[i].id = fileId /\ \A j \in 1..(i - 1) : files[j].id # fileId
    ELSE 0

\* manifest.files.find(f => f.id === fileId); val is the record.
findEnvFile(w, fileId) ==
  IF findIndex(getManifest(w).files, fileId) = 0
    THEN Throw(w, "Env file not found: " \o fileId)
    ELSE Return(w, getManifest(w).files[findIndex(getManifest(w).files, fileId)])

includes(s, x) == \E i \in 1..Len(s) : s[i] = x

\* The manifest after createEnvFile's update: the project pushed when it is
\* new, the entry replaced when the id exists and pushed when it does not.
upsertEnvFile(m, envFile) ==
  [m EXCEPT
     !.projects = IF includes(@, envFile.project) THEN @ ELSE Append(@, envFile.project),
     !.files = IF findIndex(@, envFile.id) > 0
                 THEN [@ EXCEPT ![findIndex(m.files, envFile.id)] = envFile]
                 ELSE Append(@, envFile)]

\* The content createEnvFile and updateEnvFile write: the text, or its
\* envelope when the record is encrypted.
fileContent(w, encrypted, variables, encryptionOptions, iv, message) ==
  IF ~encrypted THEN Return(w, PlainFile(serializeEnvContent(variables)))
  ELSE IF encryptionOptions.method = "none" THEN Throw(w, message)
  ELSE encrypt(w, serializeEnvContent(variables), encryptionOptions, iv)

\* The EnvFile record createEnvFile builds.
newEnvFile(w, project, environment, optName, encryptionOptions, optImmutable) ==
  EnvFile(generateFileId(project, environment, optName), optName, project,
          environment,
          w.cfg.encryptionEnabled /\ encryptionOptions.method # "none",
          IF optImmutable = "unset" THEN w.cfg.immutableByDefault
                                    ELSE optImmutable = "yes")

storeEnvFile(w, envFile, variables, encryptionOptions, iv) ==
  Bind(Bind(Bind(Bind(
    fileContent(w, envFile.encrypted, variables, encryptionOptions, iv, ""),
    LAMBDA x : writeVaultFile(x, getEnvFilePath(envFile.id, envFile.encrypted), x.val)),
    LAMBDA x : saveManifest(x, upsertEnvFile(getManifest(x), envFile))),
    LAMBDA x : commitChanges(x)),
    LAMBDA x : Return(x, envFile))

createEnvFile(w, project, environment, variables, optName, encryptionOptions, optImmutable, iv) ==
  IF ~w.cfg.exists
    THEN Throw(w, "Envmatic not configured. Run envmatic init first.")
    ELSE storeEnvFile(w,
           newEnvFile(w, project, environment,
                      IF optName = "" THEN DEFAULT_NAME ELSE optName,
                      encryptionOptions, optImmutable),
           variables, encryptionOptions, iv)

\* The text of a stored file: read, and decrypted when it is encrypted.
readContent(w, metadata, encryptionOptions) ==
  IF ~vaultPathExists(w, getEnvFilePath(metadata.id, metadata.encrypted))
    THEN Throw(w, "Env file not found on disk: "
                    \o getEnvFilePath(metadata.id, metadata.encrypted))
  ELSE IF ~metadata.encrypted
    THEN Return(w, w.blobs[getEnvFilePath(metadata.id, FALSE)].text)
  ELSE IF encryptionOptions.method = "none"
    THEN Throw(w, "Encryption options required to read encrypted file")
  ELSE decrypt(w, w.blobs[getEnvFilePath(metadata.id, TRUE)], encryptionOptions)

readEnvFile(w, fileId, encryptionOptions) ==
  Bind(findEnvFile(w, fileId),
       LAMBDA f : Bind(readContent(f, f.val, encryptionOptions),
                       LAMBDA x : Return(x, [metadata |-> f.val,
                                             variables |-> parseEnvContent(x.val)])))

updateEnvFile(w, fileId, variables, encryptionOptions, iv) ==
  Bind(findEnvFile(w, fileId),
       LAMBDA f :
         Bind(Bind(Bind(Bind(
           fileContent(f, f.val.encrypted, variables, encryptionOptions, iv,
                       "Encryption options required to update encrypted file"),
           LAMBDA x : writeVaultFile(x, getEnvFilePath(fileId, f.val.encrypted), x.val)),
           LAMBDA x : saveManifest(x, getManifest(x))),
           LAMBDA x : commitChanges(x)),
           LAMBDA x : Return(x, f.val)))

\* The manifest after deleteEnvFile's update: the record filtered out, and
\* its project when no remaining file has it.
withoutEnvFile(m, metadata) ==
  [m EXCEPT
     !.files = SelectSeq(@, LAMBDA f : f.id # metadata.id),
     !.projects =
        IF \E i \in 1..Len(m.files) :
             m.files[i].id # metadata.id /\ m.files[i].project = metadata.project
          THEN @
          ELSE SelectSeq(@, LAMBDA p : p # metadata.project)]

deleteEnvFile(w, fileId) ==
  Bind(findEnvFile(w, fileId),
       LAMBDA f :
         commitChanges(
           saveManifest(removeVaultFile(f, getEnvFilePath(fileId, f.val.encrypted)),
                        withoutEnvFile(getManifest(f), f.val))))

\* { ...variables, [key]: value }
withVariable(variables, key, value) ==
  [k \in DOMAIN variables \cup {key} |-> IF k = key THEN value ELSE variables[k]]

\* delete variables[key]
withoutVariable(variables, key) ==
  [k \in DOMAIN variables \ {key} |-> variables[k]]

setVariable(w, fileId, key, value, encryptionOptions, iv) ==
  Bind(readEnvFile(w, fileId, encryptionOptions),
       LAMBDA x : updateEnvFile(x, fileId, withVariable(x.val.variables, key, value),
                                encryptionOptions, iv))

removeVariable(w, fileId, key, encryptionOptions, iv) ==
  Bind(readEnvFile(w, fileId, encryptionOptions),
       LAMBDA x : updateEnvFile(x, fileId, withoutVariable(x.val.variables, key),
                                encryptionOptions, iv))

(***************************************************************************)
(* git service: clone, init, pull, push, sync.  A branch is the sequence   *)
(* of its commits; one branch is ahead of another by the commits it holds  *)
(* beyond it, and a push is accepted when it is a fast-forward.            *)
(***************************************************************************)
IsPrefix(a, b) == Len(a) <= Len(b) /\ \A i \in 1..Len(a) : a[i] = b[i]

NotEmptyError == "Vault directory is not empty. Please remove existing files first."
CloneDestinationError ==
  "fatal: destination path already exists and is not an empty directory."
CloneBranchError == "fatal: Remote branch main not found in upstream origin"
RemoteExistsError == "error: remote origin already exists."
NoTrackingError == "There is no tracking information for the current branch."
NoUpstreamError == "fatal: The current branch main has no upstream branch."
DivergedError == "fatal: Need to specify how to reconcile divergent branches."
RejectedError == "error: failed to push some refs (non-fast-forward)"
UnreachableError == "fatal: unable to access the remote: Could not resolve host"

isVaultInitialized(w) == w.vault = "repo"

\* fs.remove(VAULT_PATH): the working tree and the repository in it.
removeVault(w) ==
  [w EXCEPT !.vault = "absent", !.manifest = EmptyManifest, !.blobs = NoBlobs,
            !.salt = 0, !.locked = {}, !.uchg = {}, !.head = EmptyTree, !.log = <<>>,
            !.upstream = NoUpstream]

\* readdir(VAULT_PATH): the env files are under project directories, the
\* manifest and the salt are dot-files.
nonHiddenFiles(w) == {p \in VaultPaths : w.blobs[p] # NoFile}

hiddenFiles(w) ==
  (IF w.manifest.exists THEN {".envmatic-manifest.json"} ELSE {})
    \cup (IF w.salt # 0 THEN {".envmatic-salt"} ELSE {})
    \cup (IF w.vault = "repo" THEN {".git"} ELSE {})

\* fs.ensureDir(VAULT_PATH)
ensureVaultDir(w) == [w EXCEPT !.vault = IF @ = "absent" THEN "dir" ELSE @]

\* git clone --branch: refuses a destination that holds any file, and a
\* branch the remote does not have.
gitClone(w) ==
  IF hiddenFiles(w) # {} \/ nonHiddenFiles(w) # {}
    THEN Throw(w, CloneDestinationError)
  ELSE IF w.remote = <<>>
    THEN Throw(w, CloneBranchError)
  ELSE [w EXCEPT !.vault = "repo",
                 !.manifest = w.remoteTree.manifest,
                 !.blobs = w.remoteTree.blobs,
                 !.salt = w.remoteTree.salt,
                 !.locked = {}, !.uchg = {},
                 !.head = w.remoteTree,
                 !.log = w.remote,
                 !.upstream = Upstream(w.remote)]

cloneRepository(w) ==
  IF nonHiddenFiles(w) # {} \/ ".git" \in hiddenFiles(w)
    THEN Throw(ensureVaultDir(w), NotEmptyError)
    ELSE gitClone(ensureVaultDir(w))

\* git add . and git commit in a repository that has no commit yet.
firstCommit(w) == [w EXCEPT !.head = Tree(w), !.log = <<NewCommit(w)>>]

\* The call of initRepository that git rejects: git init in a directory it
\* cannot write to, git commit without a configured identity.
GitRejects == {"none", "init", "commit"}
GitInitError == "fatal: cannot mkdir .git: Permission denied"
GitIdentityError == "fatal: unable to auto-detect email address"

\* What initRepository leaves before git add: the repository with origin
\* and the branch, and the empty manifest in the directory.
initialized(w) ==
  [w EXCEPT !.vault = "repo",
            !.manifest = [EmptyManifest EXCEPT !.exists = TRUE],
            !.log = <<>>, !.head = EmptyTree,
            !.upstream = NoUpstream]

\* git init, remote add, checkout -b, the empty manifest, add . and the
\* first commit (of the manifest, .gitignore, README and whatever else the
\* directory holds); the branch gets no upstream.  w.rejects is the call
\* that git rejects.
initRepository(w) ==
  IF w.rejects = "init" THEN Throw(ensureVaultDir(w), GitInitError)
  ELSE IF w.vault = "repo" THEN Throw(w, RemoteExistsError)
  ELSE IF w.rejects = "commit" THEN Throw(initialized(w), GitIdentityError)
  ELSE firstCommit(initialized(w))

\* git merge --ff of the fetched branch into the clean working tree.
fastForward(w) ==
  IF IsPrefix(w.remote, w.log) THEN w
  ELSE IF IsPrefix(w.log, w.remote) /\ Tree(w) = w.head
    THEN [w EXCEPT !.manifest = w.remoteTree.manifest,
                   !.blobs = w.remoteTree.blobs,
                   !.salt = w.remoteTree.salt,
                   !.head = w.remoteTree,
                   !.log = w.remote]
  ELSE Throw(w, DivergedError)

\* git pull: fetch, then merge.  The fetch comes first, so an unreachable
\* remote is reported before the missing tracking information is.
pull(w) ==
  IF w.vault # "repo" THEN Throw(w, NotARepoError)
  ELSE IF ~w.online THEN Throw(called(w, "pull"), UnreachableError)
  ELSE IF ~w.upstream.set THEN Throw(called(w, "pull"), NoTrackingError)
  ELSE fastForward(called([w EXCEPT !.upstream = Upstream(w.remote)], "pull"))

\* git push -u --force: the remote branch is overwritten.
pushSetUpstream_Force(w) ==
  IF w.vault # "repo" THEN Throw(w, NotARepoError)
  ELSE IF ~w.online THEN Throw(called(w, "push"), UnreachableError)
  ELSE called([w EXCEPT !.remote = w.log, !.remoteTree = w.head,
                        !.upstream = Upstream(w.log)], "push")

\* git push -u origin <branch>
pushSetUpstream(w) ==
  IF w.vault # "repo" THEN Throw(w, NotARepoError)
  ELSE IF ~w.online THEN Throw(called(w, "push"), UnreachableError)
  ELSE IF IsPrefix(w.remote, w.log)
    THEN called([w EXCEPT !.remote = w.log, !.remoteTree = w.head,
                          !.upstream = Upstream(w.log)], "push")
  ELSE Throw(called(w, "push"), RejectedError)

\* git push: a branch without upstream is refused before the remote is
\* contacted.
gitPush(w) ==
  IF w.vault # "repo" THEN Throw(w, NotARepoError)
  ELSE IF ~w.upstream.set THEN Throw(called(w, "push"), NoUpstreamError)
  ELSE pushSetUpstream(w)

\* push without the second attempt.
push_NoRetry(w) == gitPush(w)

push(w) ==
  Either(gitPush(w),
         LAMBDA x : x,
         LAMBDA x : IF x.err = NoUpstreamError THEN pushSetUpstream(Caught(x)) ELSE x)

\* status.ahead: the commits of the branch beyond its upstream; 0 when the
\* branch has no upstream.
ahead(w) ==
  IF w.upstream.set
    THEN Cardinality(SeqToSet(w.log) \ SeqToSet(w.upstream.at))
    ELSE 0

\* sync, first step: commit when the status lists a file.
syncCommit(w) ==
  IF w.vault # "repo" THEN Throw(w, NotARepoError)
  ELSE IF Tree(w) # w.head
    THEN Return(commitChanges(w), [pulled |-> FALSE, pushed |-> FALSE, committed |-> TRUE])
    ELSE Return(w, [pulled |-> FALSE, pushed |-> FALSE, committed |-> FALSE])

\* sync's pull step with every failure of the pull forgiven.
syncPull_Swallow(w) ==
  Either(pull(w),
         LAMBDA x : Return(x, [x.val EXCEPT !.pulled = TRUE]),
         LAMBDA x : Caught(x))

\* sync, second step: pull; only the missing upstream is forgiven.
syncPull(w) ==
  Either(pull(w),
         LAMBDA x : Return(x, [x.val EXCEPT !.pulled = TRUE]),
         LAMBDA x : IF x.err = NoTrackingError THEN Caught(x) ELSE x)

\* sync's push step without the look at the status.
syncPush_Always(w) ==
  Bind(pushSetUpstream(w), LAMBDA x : Return(x, [x.val EXCEPT !.pushed = TRUE]))

\* sync, third step: push when the status counts commits ahead.  The
\* status of a branch without upstream is not an error, so the handler for
\* "has no upstream" is never entered.
syncPush(w) ==
  IF ahead(w) > 0
    THEN Bind(pushSetUpstream(w), LAMBDA x : Return(x, [x.val EXCEPT !.pushed = TRUE]))
    ELSE w

sync(w) ==
  Bind(Bind(syncCommit(w), LAMBDA x : syncPull(x)), LAMBDA x : syncPush(x))

(***************************************************************************)
(* protection service.  getPlatform() is host.platform.  chmod 444 and 644 *)
(* remove and restore the write permission (locked); on Windows attrib +R  *)
(* and -R set and clear the read-only attribute (locked as well); on macOS *)
(* chflags uchg and nouchg set and clear the user-immutable flag (uchg)    *)
(* where chflags works, and leave the mode as it is.                       *)
(***************************************************************************)
chmod(w, filePath, writable) ==
  [w EXCEPT !.locked = IF writable THEN @ \ {filePath} ELSE @ \cup {filePath}]

chflags(w, filePath, flag) ==
  IF ~w.host.chflags THEN Throw(w, "chflags: Operation not permitted")
  ELSE [w EXCEPT !.uchg = IF flag = "uchg" THEN @ \cup {filePath} ELSE @ \ {filePath}]

\* The catch logs and returns false.
makeImmutable(w, filePath) ==
  IF ~vaultPathExists(w, filePath) THEN Return(w, FALSE)
  ELSE IF w.host.platform = "macos"
    THEN Return(Either(chflags(w, filePath, "uchg"),
                       LAMBDA x : x,
                       LAMBDA x : chmod(Caught(x), filePath, FALSE)),
                TRUE)
  ELSE Return(chmod(w, filePath, FALSE), TRUE)

makeMutable(w, filePath) ==
  IF ~vaultPathExists(w, filePath) THEN Return(w, FALSE)
  ELSE IF w.host.platform = "macos"
    THEN Return(chmod(Caught(chflags(w, filePath, "nouchg")), filePath, TRUE), TRUE)
  ELSE Return(chmod(w, filePath, TRUE), TRUE)

\* Windows: opening the file r+ fails.  macOS and Linux: no write bit in
\* stats.mode.
isImmutable(w, filePath) == vaultPathExists(w, filePath) /\ filePath \in w.locked

\* The callbacks given to withWriteAccess: one writes text to the file and
\* returns "written", one writes and then throws, one throws at once.
Callbacks == {"write", "write and throw", "throw"}

callback(w, filePath, action, text) ==
  IF action = "throw" THEN Throw(w, "callback failed")
  ELSE Bind(writeVaultFile(w, filePath, PlainFile(text)),
            LAMBDA x : IF action = "write" THEN Return(x, "written")
                                           ELSE Throw(x, "callback failed"))

\* val is what the callback returned; what it threw is thrown after the
\* finally block has run.
withWriteAccess(w, filePath, action, text) ==
  IF isImmutable(w, filePath)
    THEN Either(callback(makeMutable(w, filePath), filePath, action, text),
                LAMBDA x : Return(makeImmutable(x, filePath), x.val),
                LAMBDA x : Throw(makeImmutable(Caught(x), filePath), x.err))
    ELSE callback(w, filePath, action, text)

(***************************************************************************)
(* The file system outside the vault.  At a path there is nothing, a       *)
(* regular file, or a symbolic link to a vault file.                       *)
(***************************************************************************)
Symlink(to) == [kind |-> "symlink", to |-> to]

\* The process runs in /w.
AbsolutePaths == {"/w/.env", "/w/app/.env"}
TargetPaths == {".env", "./.env", "app/.env"} \cup AbsolutePaths

\* path.resolve
resolve(targetPath) ==
  IF targetPath \in AbsolutePaths THEN targetPath
  ELSE IF targetPath = "./.env" THEN "/w/.env"
  ELSE "/w/" \o targetPath

\* path.join(os.tmpdir(), 'envmatic-edit-' + Date.now() + '.env')
TempFile == "/tmp/envmatic-edit-1.env"

NoTargets == [t \in AbsolutePaths \cup {TempFile} |-> NoFile]

\* fs.pathExists follows a symbolic link: a link whose file is gone does
\* not exist for it.
pathExists(w, path) ==
  \/ w.fs[path].kind = "plain"
  \/ w.fs[path].kind = "symlink" /\ vaultPathExists(w, w.fs[path].to)

\* fs.lstat succeeds: there is an object at the path itself.
lexists(w, path) == w.fs[path] # NoFile

\* fs.remove removes the object at the path, never what a link points to.
remove(w, path) == [w EXCEPT !.fs[path] = NoFile]

\* if (await fs.pathExists(target)) await fs.remove(target)
removeIfExists(w, path) == IF pathExists(w, path) THEN remove(w, path) ELSE w

\* fs.writeFile opens the path for writing: a path that refuses the write
\* throws; through a symbolic link it writes (or creates) the file the link
\* points to.
writeFile(w, path, text) ==
  IF path \in w.readonly
    THEN Throw(w, "EACCES: permission denied, open")
  ELSE IF w.fs[path].kind = "symlink"
    THEN writeVaultFile(w, w.fs[path].to, PlainFile(text))
  ELSE [w EXCEPT !.fs[path] = PlainFile(text)]

\* fs.symlink
symlink(w, sourcePath, path) ==
  IF lexists(w, path)
    THEN Throw(w, "EEXIST: file already exists, symlink")
    ELSE [w EXCEPT !.fs[path] = Symlink(sourcePath)]

(***************************************************************************)
(* config service: the link registry.                                      *)
(***************************************************************************)
LinkInfo(sourceId, targetPath, type, autoSync) ==
  [sourceId |-> sourceId, targetPath |-> targetPath, type |-> type,
   autoSync |-> autoSync]

getLinks(w) == w.links

saveLinks(w, ls) == [w EXCEPT !.links = ls]

\* addLink without the filter on the target path.
addLink_NoFilter(w, link) == saveLinks(w, Append(getLinks(w), link))

addLink(w, link) ==
  saveLinks(w, Append(SelectSeq(getLinks(w),
                                LAMBDA l : l.targetPath # link.targetPath),
                      link))

removeLink(w, targetPath) ==
  IF \A i \in 1..Len(getLinks(w)) : getLinks(w)[i].targetPath # targetPath
    THEN Return(w, FALSE)
    ELSE Return(saveLinks(w, SelectSeq(getLinks(w),
                                       LAMBDA l : l.targetPath # targetPath)),
                TRUE)

getLinksForEnvFile(w, sourceId) ==
  SelectSeq(getLinks(w), LAMBDA l : l.sourceId = sourceId)

(***************************************************************************)
(* linker service.                                                         *)
(***************************************************************************)
\* createSymlink once the record is found: the source must be on disk;
\* what is at the target is removed; an encrypted record is refused; else
\* the link is made and recorded.
linkSource(w, metadata, resolvedTarget, encryptionOptions) ==
  IF ~vaultPathExists(w, getEnvFilePath(metadata.id, metadata.encrypted))
    THEN Throw(w, "Source file not found: "
                    \o getEnvFilePath(metadata.id, metadata.encrypted))
  ELSE IF metadata.encrypted
    THEN Throw(removeIfExists(w, resolvedTarget),
               IF encryptionOptions.method = "none"
                 THEN "Encryption options required for encrypted files"
                 ELSE "Use copy mode for encrypted files. Symlinks cannot decrypt on-the-fly.")
  ELSE Bind(symlink(removeIfExists(w, resolvedTarget),
                    getEnvFilePath(metadata.id, FALSE), resolvedTarget),
            LAMBDA x : Return(addLink(x, LinkInfo(metadata.id, resolvedTarget, "symlink", FALSE)),
                              LinkInfo(metadata.id, resolvedTarget, "symlink", FALSE)))

createSymlink(w, sourceFileId, targetPath, encryptionOptions) ==
  Bind(findEnvFile(w, sourceFileId),
       LAMBDA f : linkSource(f, f.val, resolve(targetPath), encryptionOptions))

createCopy(w, sourceFileId, targetPath, encryptionOptions, autoSync) ==
  Bind(Bind(readEnvFile(w, sourceFileId, encryptionOptions),
            LAMBDA r : writeFile(r, resolve(targetPath),
                                 serializeEnvContent(r.val.variables))),
       LAMBDA x : Return(addLink(x, LinkInfo(sourceFileId, resolve(targetPath), "copy", autoSync)),
                         LinkInfo(sourceFileId, resolve(targetPath), "copy", autoSync)))

\* One turn of syncCopies' loop per copy; a failure is logged and the loop
\* goes on.  val counts the copies written.
RECURSIVE syncEach(_, _, _, _, _)
syncEach(w, sourceFileId, encryptionOptions, copies, synced) ==
  IF copies = <<>> THEN Return(w, synced)
  ELSE Either(Bind(readEnvFile(w, sourceFileId, encryptionOptions),
                   LAMBDA r : writeFile(r, Head(copies).targetPath,
                                        serializeEnvContent(r.val.variables))),
              LAMBDA x : syncEach(x, sourceFileId, encryptionOptions,
                                  Tail(copies), synced + 1),
              LAMBDA x : syncEach(Caught(x), sourceFileId, encryptionOptions,
                                  Tail(copies), synced))

\* syncCopies returning the number of copies, written or not.
syncCopies_CountAll(w, sourceFileId, encryptionOptions) ==
  Return(syncEach(w, sourceFileId, encryptionOptions,
                  SelectSeq(getLinksForEnvFile(w, sourceFileId), LAMBDA l : l.type = "copy"),
                  0),
         Len(SelectSeq(getLinksForEnvFile(w, sourceFileId), LAMBDA l : l.type = "copy")))

syncCopies(w, sourceFileId, encryptionOptions) ==
  syncEach(w, sourceFileId, encryptionOptions,
           SelectSeq(getLinksForEnvFile(w, sourceFileId), LAMBDA l : l.type = "copy"),
           0)

\* val is what removeLink returned.
unlink(w, targetPath) ==
  removeIfExists(removeLink(w, resolve(targetPath)), resolve(targetPath))

\* What validateLink returns; error is "" when it reports none.
Validation(valid, exists, isSymlink, error) ==
  [valid |-> valid, exists |-> exists, isSymlink |-> isSymlink, error |-> error]

\* validateLink reads and writes nothing; it returns its verdict.  The
\* symlink's real path is compared only when the manifest still holds the
\* record of the source.
validateLink(w, link) ==
  IF ~pathExists(w, link.targetPath)
    THEN Validation(FALSE, FALSE, FALSE, "Target does not exist")
  ELSE IF link.type = "symlink" /\ w.fs[link.targetPath].kind # "symlink"
    THEN Validation(FALSE, TRUE, FALSE, "Expected symlink but found regular file")
  ELSE IF /\ link.type = "symlink"
          /\ findIndex(getManifest(w).files, link.sourceId) > 0
          /\ w.fs[link.targetPath].to #
               getEnvFilePath(link.sourceId,
                 getManifest(w).files[findIndex(getManifest(w).files, link.sourceId)].encrypted)
    THEN Validation(FALSE, TRUE, TRUE, "Symlink points to wrong target")
  ELSE Validation(TRUE, TRUE, w.fs[link.targetPath].kind = "symlink", "")

\* errorMessage.includes('not found'): the messages of findEnvFile,
\* readContent and linkSource, and no other the linker meets.
NotFoundErrors ==
  {"Env file not found: " \o id : id \in FileIds}
    \cup {"Env file not found on disk: " \o path : path \in VaultPaths}
    \cup {"Source file not found: " \o path : path \in VaultPaths}

\* repairLinks, the try block: the link is unlinked, then created again.
recreate(w, link, encryptionOptions) ==
  IF link.type = "symlink"
    THEN createSymlink(unlink(w, link.targetPath), link.sourceId, link.targetPath,
                       encryptionOptions)
    ELSE createCopy(unlink(w, link.targetPath), link.sourceId, link.targetPath,
                    encryptionOptions, link.autoSync)

\* One turn of repairLinks' loop per link of the registry as it was read at
\* entry.  result counts repaired and removed and collects errors.
RECURSIVE repairEach(_, _, _, _)
repairEach(w, ls, encryptionOptions, result) ==
  IF ls = <<>> THEN Return(w, result)
  ELSE IF validateLink(w, Head(ls)).valid
    THEN repairEach(w, Tail(ls), encryptionOptions, result)
  ELSE Either(recreate(w, Head(ls), encryptionOptions),
              LAMBDA x : repairEach(x, Tail(ls), encryptionOptions,
                                    [result EXCEPT !.repaired = @ + 1]),
              LAMBDA x :
                IF x.err \in NotFoundErrors
                  THEN repairEach(removeLink(Caught(x), Head(ls).targetPath), Tail(ls),
                                  encryptionOptions, [result EXCEPT !.removed = @ + 1])
                  ELSE repairEach(Caught(x), Tail(ls), encryptionOptions,
                                  [result EXCEPT !.errors =
                                     Append(@, Head(ls).targetPath \o ": " \o x.err)]))

repairLinks(w, encryptionOptions) ==
  repairEach(w, getLinks(w), encryptionOptions,
             [repaired |-> 0, removed |-> 0, errors |-> <<>>])

(***************************************************************************)
(* Commands.  A command catches what its services throw and prints it: err *)
(* is the message printed, "" when the command completed.                  *)
(***************************************************************************)
NotInitializedError == "Envmatic is not initialized. Run envmatic init first."

\* getEncryptionOptions; password is what the user types at the prompt.
getEncryptionOptions(w, password) ==
  IF ~w.cfg.exists \/ ~w.cfg.encryptionEnabled THEN NoOptions
  ELSE IF w.cfg.encryptionMethod = "ssh" /\ w.cfg.sshKeyPath # ""
    THEN SshOptions(w.cfg.sshKeyPath)
  ELSE IF w.cfg.encryptionMethod = "password" THEN PasswordOptions(password)
  ELSE NoOptions

\* initCommand, setting up the vault: an initialized vault is removed under
\* --force; then the clone is tried and, when it throws, the repository is
\* initialized instead.  val is the path taken.
setUpVault(w, force) ==
  Either(cloneRepository(IF isVaultInitialized(w) /\ force THEN removeVault(w) ELSE w),
         LAMBDA x : Return(x, "CLONE"),
         LAMBDA x : Return(initRepository(Caught(x)), "INIT"))

\* initCommand after the prompts: v is the world after the encryption was
\* verified (val: whether it was).
initVerified(v, force, config) ==
  IF ~v.val THEN Return(Throw(v, "Encryption verification failed"), "")
  ELSE Either(setUpVault(v, force),
              LAMBDA x : [x EXCEPT !.cfg = config],
              LAMBDA x : Return(x, ""))

\* initCommand against a remote that checkRemoteAccess reaches.  method is
\* the answer to the encryption prompts ("none": encryption declined).
initCommand(w, force, method, password, immutableByDefault, iv) ==
  IF w.cfg.exists /\ ~force
    THEN Return(Throw(w, "Envmatic is already initialized."), "")
  ELSE initVerified(
         IF method = "none" THEN Return(w, TRUE)
         ELSE verifyEncryption(w, IF method = "ssh" THEN SshOptions("~/.ssh/id_rsa")
                                                    ELSE PasswordOptions(password), iv),
         force,
         createInitialConfig(method # "none", method,
                             IF method = "ssh" THEN "~/.ssh/id_rsa" ELSE "",
                             immutableByDefault))

addCommand(w, project, environment, variables, password, iv) ==
  IF ~w.cfg.exists THEN Throw(w, NotInitializedError)
  ELSE IF DOMAIN variables = {} THEN Throw(w, "No variables provided. Aborting.")
  ELSE Bind(createEnvFile(w, project, environment, variables, DEFAULT_NAME,
                          getEncryptionOptions(w, password),
                          IF w.cfg.immutableByDefault THEN "yes" ELSE "no", iv),
            LAMBDA x : Caught(sync(
              IF x.val.immutable
                THEN makeImmutable(x, getEnvFilePath(x.val.id, x.val.encrypted))
                ELSE x)))

setCommand(w, fileId, key, value, password, iv) ==
  IF ~w.cfg.exists THEN Throw(w, NotInitializedError)
  ELSE Bind(Bind(setVariable(w, fileId, key, value,
                             getEncryptionOptions(w, password), iv),
                 LAMBDA x : syncCopies(x, fileId, getEncryptionOptions(w, password))),
            LAMBDA x : Caught(sync(x)))

unsetCommand(w, fileId, key, password, iv) ==
  IF ~w.cfg.exists THEN Throw(w, NotInitializedError)
  ELSE Bind(Bind(removeVariable(w, fileId, key,
                                getEncryptionOptions(w, password), iv),
                 LAMBDA x : syncCopies(x, fileId, getEncryptionOptions(w, password))),
            LAMBDA x : Caught(sync(x)))

\* The interactive session of envmatic edit: the choices made in the loop.
\* edit is the one change made before leaving ("none" when the loop is left
\* at once), exit is "save" or "cancel" (with the discard confirmed).
Edits == {"none", "set", "remove"}
Exits == {"save", "cancel"}

edited(variables, edit) ==
  IF edit = "set" THEN withVariable(variables, "PORT", "a b")
  ELSE IF edit = "remove" /\ DOMAIN variables # {}
    THEN withoutVariable(variables, CHOOSE k \in DOMAIN variables : TRUE)
  ELSE variables

\* remove with no variable to remove leaves modified false.
modified(variables, edit) ==
  edit = "set" \/ (edit = "remove" /\ DOMAIN variables # {})

\* editCommand's save branch.
editSave(w, content, edit, encryptionOptions, iv) ==
  IF ~modified(content.variables, edit) THEN Return(w, "No changes to save.")
  ELSE Bind(Bind(Bind(
         updateEnvFile(w, content.metadata.id, edited(content.variables, edit),
                       encryptionOptions, iv),
         LAMBDA x : IF content.metadata.immutable
                      THEN makeImmutable(x, getEnvFilePath(content.metadata.id,
                                                           content.metadata.encrypted))
                      ELSE x),
         LAMBDA x : syncCopies(x, content.metadata.id, encryptionOptions)),
         LAMBDA x : Return(Caught(sync(x)), "File updated successfully!"))

\* editCommand's cancel branch.
editCancel(w, content) ==
  Return(IF content.metadata.immutable
           THEN makeImmutable(w, getEnvFilePath(content.metadata.id,
                                                content.metadata.encrypted))
           ELSE w,
         "Changes discarded.")

\* editCommand without --editor: the file is read, made mutable when its
\* record is immutable, and the loop runs to its exit.  What is thrown is
\* caught and printed by the command.
editCommand(w, fileId, password, edit, exit, iv) ==
  IF ~w.cfg.exists THEN Throw(w, NotInitializedError)
  ELSE Bind(readEnvFile(w, fileId, getEncryptionOptions(w, password)),
            LAMBDA r :
              IF exit = "save"
                THEN editSave(IF r.val.metadata.immutable
                                THEN makeMutable(r, getEnvFilePath(fileId, r.val.metadata.encrypted))
                                ELSE r,
                              r.val, edit, getEncryptionOptions(w, password), iv)
                ELSE editCancel(IF r.val.metadata.immutable
                                  THEN makeMutable(r, getEnvFilePath(fileId, r.val.metadata.encrypted))
                                  ELSE r,
                                r.val))

\* The path the editor is opened on: the temporary decrypted file for an
\* encrypted record, else the vault file itself.
editFilePath(metadata) ==
  IF metadata.encrypted THEN TempFile
  ELSE getEnvFilePath(metadata.id, FALSE)

\* The user's editing: the editor writes the edited text to the file it was
\* opened on (a vault file that refuses the write stays as it is).
typed(w, metadata, variables, edit) ==
  IF edit = "none" THEN w
  ELSE IF metadata.encrypted
    THEN writeFile(w, TempFile, serializeEnvContent(edited(variables, edit)))
  ELSE Caught(writeVaultFile(w, getEnvFilePath(metadata.id, FALSE),
                             PlainFile(serializeEnvContent(edited(variables, edit)))))

\* openInEditor: the promise rejects when the editor exits with a code that
\* is neither 0 nor null.
openInEditor(w, metadata, variables, edit, code) ==
  IF code = 0 THEN typed(w, metadata, variables, edit)
  ELSE Throw(typed(w, metadata, variables, edit), "Editor exited with code 1")

\* fs.readFile(editFilePath) and parseEnvContent; val is editedVariables.
readEdited(w, metadata) ==
  IF metadata.encrypted
    THEN IF w.fs[TempFile].kind = "plain"
           THEN Return(w, parseEnvContent(w.fs[TempFile].text))
           ELSE Throw(w, "ENOENT: no such file or directory, open")
  ELSE IF w.blobs[getEnvFilePath(metadata.id, FALSE)].kind = "plain"
    THEN Return(w, parseEnvContent(w.blobs[getEnvFilePath(metadata.id, FALSE)].text))
  ELSE Throw(w, "ENOENT: no such file or directory, open")

\* if (tempFilePath) await fs.remove(tempFilePath)
removeTemp(w, metadata) == IF metadata.encrypted THEN remove(w, TempFile) ELSE w

\* The answer to 'Lock the file?' and what follows it.
lockAfterEdit(w, metadata, shouldLock) ==
  IF shouldLock /\ metadata.immutable
    THEN makeImmutable(w, getEnvFilePath(metadata.id, metadata.encrypted))
    ELSE w

\* The try block of editWithExternalEditor; val is the message printed last.
editorSession(w, content, encryptionOptions, edit, code, shouldLock, iv) ==
  Bind(Bind(openInEditor(w, content.metadata, content.variables, edit, code),
            LAMBDA o : readEdited(o, content.metadata)),
       LAMBDA r :
         IF serializeEnvContent(content.variables) = serializeEnvContent(r.val)
           THEN Return(lockAfterEdit(removeTemp(r, content.metadata),
                                     content.metadata, shouldLock),
                       "No changes detected.")
         ELSE Bind(Bind(Bind(
                updateEnvFile(r, content.metadata.id, r.val, encryptionOptions, iv),
                LAMBDA x : syncCopies(removeTemp(x, content.metadata),
                                      content.metadata.id, encryptionOptions)),
                LAMBDA x : lockAfterEdit(Caught(sync(x)), content.metadata, shouldLock)),
                LAMBDA x : Return(x, "File updated successfully!")))

\* The catch block without its clean-up.
editorCatch_NoCleanup(w, metadata) ==
  Return(Caught(w), "Editor error: " \o w.err)

\* The catch block: the error is printed and the temporary file removed
\* when it exists.
editorCatch(w, metadata) ==
  Return(Caught(IF metadata.encrypted THEN removeIfExists(w, TempFile) ELSE w),
         "Editor error: " \o w.err)

\* editWithExternalEditor.  found: detectEditors found an editor; edit and
\* code: what the user did in it and its exit code.
editWithExternalEditor(w, content, encryptionOptions, found, edit, code, shouldLock, iv) ==
  IF ~found
    THEN Return(IF content.metadata.immutable
                  THEN makeImmutable(w, getEnvFilePath(content.metadata.id,
                                                       content.metadata.encrypted))
                  ELSE w,
                "No editors found on your system.")
  ELSE Bind(IF content.metadata.encrypted
              THEN writeFile(w, TempFile, serializeEnvContent(content.variables))
              ELSE w,
            LAMBDA t :
              Either(editorSession(t, content, encryptionOptions, edit, code,
                                   shouldLock, iv),
                     LAMBDA x : x,
                     LAMBDA x : editorCatch(x, content.metadata)))

\* editCommand with --editor.
editCommandEditor(w, fileId, password, found, edit, code, shouldLock, iv) ==
  IF ~w.cfg.exists THEN Throw(w, NotInitializedError)
  ELSE Bind(readEnvFile(w, fileId, getEncryptionOptions(w, password)),
            LAMBDA r :
              editWithExternalEditor(
                IF r.val.metadata.immutable
                  THEN makeMutable(r, getEnvFilePath(fileId, r.val.metadata.encrypted))
                  ELSE r,
                r.val, getEncryptionOptions(w, password), found, edit, code,
                shouldLock, iv))

listEnvFiles(w) == getManifest(w).files

\* lock.ts, findUnlockedFiles: the records marked immutable whose file is
\* not immutable now.
findUnlockedFiles(w) ==
  SelectSeq(listEnvFiles(w),
            LAMBDA f : f.immutable /\ ~isImmutable(w, getEnvFilePath(f.id, f.encrypted)))

\* lock.ts, lockFile: true unless makeImmutable throws; what makeImmutable
\* returns is not looked at.
lockFile(w, filePath) ==
  Either(makeImmutable(w, filePath),
         LAMBDA x : Return(x, TRUE),
         LAMBDA x : Return(Caught(x), FALSE))

\* What lockCommand reports: the last message and the two counts.
LockReport(message, nlocked, nfailed) ==
  [message |-> message, locked |-> nlocked, failed |-> nfailed]

\* commitChanges and sync in a try block.
commitAndSync(w) == Caught(Bind(commitChanges(w), LAMBDA x : sync(x)))

\* lockCommand with a file id, after the file was locked: the content is
\* written again and the vault synchronized when the user agrees.
lockedOne(w, file, shouldSync, encryptionOptions, iv) ==
  IF ~shouldSync THEN w
  ELSE commitAndSync(
         Caught(Bind(Bind(readEnvFile(w, file.id, encryptionOptions),
                          LAMBDA r : updateEnvFile(r, file.id, r.val.variables,
                                                   encryptionOptions, iv)),
                     LAMBDA x : syncCopies(x, file.id, encryptionOptions))))

lockOne(w, fileId, shouldSync, encryptionOptions, iv) ==
  IF findIndex(listEnvFiles(w), fileId) = 0
    THEN Throw(w, "Env file not found: " \o fileId)
  ELSE IF isImmutable(w, getEnvFilePath(fileId,
                         listEnvFiles(w)[findIndex(listEnvFiles(w), fileId)].encrypted))
    THEN Return(w, LockReport("is already locked.", 0, 0))
  ELSE Bind(lockFile(w, getEnvFilePath(fileId,
                       listEnvFiles(w)[findIndex(listEnvFiles(w), fileId)].encrypted)),
            LAMBDA l :
              IF l.val
                THEN Return(lockedOne(l, listEnvFiles(w)[findIndex(listEnvFiles(w), fileId)],
                                      shouldSync, encryptionOptions, iv),
                            LockReport("File locked", 1, 0))
                ELSE Return(l, LockReport("Failed to lock file", 0, 1)))

\* The loop of lockCommand --all over the unlocked files.
RECURSIVE lockEach(_, _, _)
lockEach(w, unlocked, report) ==
  IF unlocked = <<>> THEN Return(w, report)
  ELSE Bind(lockFile(w, getEnvFilePath(Head(unlocked).id, Head(unlocked).encrypted)),
            LAMBDA l :
              lockEach(l, Tail(unlocked),
                       IF l.val THEN [report EXCEPT !.locked = @ + 1]
                                ELSE [report EXCEPT !.failed = @ + 1]))

lockAll(w, shouldSync) ==
  IF findUnlockedFiles(w) = <<>> THEN Return(w, LockReport("All files are locked.", 0, 0))
  ELSE Bind(lockEach(w, findUnlockedFiles(w), LockReport("All files locked.", 0, 0)),
            LAMBDA x : Return(IF shouldSync THEN commitAndSync(x) ELSE x, x.val))

\* lockCommand with a file id, or with --all (fileId "").
lockCommand(w, fileId, shouldSync, password, iv) ==
  IF ~w.cfg.exists THEN Throw(w, NotInitializedError)
  ELSE IF fileId # "" THEN lockOne(w, fileId, shouldSync, getEncryptionOptions(w, password), iv)
  ELSE lockAll(w, shouldSync)

\* validateSSHKey: the file is readable and holds a private key.
validateSSHKey(w, sshKeyPath) == sshKeyPath \in SshKeyFiles

\* updateConfig of the three encryption settings.
updateConfig(w, encryptionEnabled, encryptionMethod, sshKeyPath) ==
  IF ~w.cfg.exists
    THEN Throw(w, "Envmatic is not configured. Run envmatic init first.")
    ELSE [w EXCEPT !.cfg.encryptionEnabled = encryptionEnabled,
                   !.cfg.encryptionMethod = encryptionMethod,
                   !.cfg.sshKeyPath = sshKeyPath]

\* The loop of changePasswordCommand and of rotateKeyCommand over the
\* encrypted files: each is made mutable when its record is immutable, read
\* with the old options, written with the new ones and locked again at the
\* path with or without the extension (relockEncrypted); a failure is
\* counted and the loop goes on.  val counts processed and errors.
RECURSIVE reencryptEach(_, _, _, _, _, _, _)
reencryptEach(w, files, oldOptions, newOptions, relockEncrypted, iv, result) ==
  IF files = <<>> THEN Return(w, result)
  ELSE Either(
         Bind(Bind(
           readEnvFile(IF Head(files).immutable
                         THEN makeMutable(w, getEnvFilePath(Head(files).id, Head(files).encrypted))
                         ELSE w,
                       Head(files).id, oldOptions),
           LAMBDA r : updateEnvFile(r, Head(files).id, r.val.variables, newOptions, iv)),
           LAMBDA x : IF Head(files).immutable
                        THEN makeImmutable(x, getEnvFilePath(Head(files).id, relockEncrypted))
                        ELSE x),
         LAMBDA x : reencryptEach(x, Tail(files), oldOptions, newOptions, relockEncrypted,
                                  iv, [result EXCEPT !.processed = @ + 1]),
         LAMBDA x : reencryptEach(Caught(x), Tail(files), oldOptions, newOptions,
                                  relockEncrypted, iv, [result EXCEPT !.errors = @ + 1]))

reencrypt(w, oldOptions, newOptions, relockEncrypted, iv) ==
  reencryptEach(w, SelectSeq(listEnvFiles(w), LAMBDA f : f.encrypted),
                oldOptions, newOptions, relockEncrypted, iv,
                [processed |-> 0, errors |-> 0])

\* changePasswordCommand.  The prompts accept a new password that differs
\* from the old one.  val is the last line printed.
changePasswordCommand(w, oldPassword, newPassword, iv) ==
  IF ~w.cfg.exists THEN Throw(w, NotInitializedError)
  ELSE IF ~w.cfg.encryptionEnabled
    THEN Throw(w, "Encryption is not enabled. Nothing to change.")
  ELSE IF w.cfg.encryptionMethod # "password"
    THEN Throw(w, "Current encryption method is SSH key, not password.")
  ELSE Bind(verifyEncryption(w, PasswordOptions(oldPassword), iv),
            LAMBDA v :
              IF ~v.val THEN Throw(v, "Current password is incorrect")
              ELSE IF SelectSeq(listEnvFiles(v), LAMBDA f : f.encrypted) = <<>>
                THEN Return(v, "Password changed successfully!")
              ELSE Return(Caught(sync(reencrypt(v, PasswordOptions(oldPassword),
                                                PasswordOptions(newPassword), TRUE, iv))),
                          "Password changed successfully!"))

\* rotateKeyCommand, verifying the current credentials; val is whether they
\* were accepted.
verifyCurrent(w, password, iv) ==
  IF ~(w.cfg.encryptionEnabled /\ w.cfg.encryptionMethod # "none") THEN Return(w, TRUE)
  ELSE IF w.cfg.encryptionMethod = "password"
    THEN verifyEncryption(w, PasswordOptions(password), iv)
  ELSE Return(w, validateSSHKey(w, w.cfg.sshKeyPath))

\* rotateKeyCommand's oldOptions.
currentOptions(w, password) ==
  IF ~(w.cfg.encryptionEnabled /\ w.cfg.encryptionMethod # "none") THEN NoOptions
  ELSE IF w.cfg.encryptionMethod = "password" THEN PasswordOptions(password)
  ELSE SshOptions(w.cfg.sshKeyPath)

\* rotateKeyCommand's newOptions.
chosenOptions(newMethod, newPassword, keyPath) ==
  IF newMethod = "password" THEN PasswordOptions(newPassword)
  ELSE IF newMethod = "ssh" THEN SshOptions(keyPath)
  ELSE NoOptions

\* rotateKeyCommand once the prompts are answered: the files are processed
\* when there are encrypted ones, the configuration is updated, and the
\* vault is synchronized.
rotate(w, oldOptions, newMethod, newPassword, keyPath, iv) ==
  IF SelectSeq(listEnvFiles(w), LAMBDA f : f.encrypted) = <<>>
    THEN Return(updateConfig(w, newMethod # "none", newMethod,
                             IF newMethod = "ssh" THEN keyPath ELSE ""),
                "Encryption settings updated!")
    ELSE Return(Caught(sync(
                  updateConfig(reencrypt(w, oldOptions,
                                         chosenOptions(newMethod, newPassword, keyPath),
                                         newMethod # "none", iv),
                               newMethod # "none", newMethod,
                               IF newMethod = "ssh" THEN keyPath ELSE ""))),
                "Encryption key rotated successfully!")

\* rotateKeyCommand.  confirmed is the answer to the confirmation asked for
\* the password method and for disabling.
rotateKeyCommand(w, password, newMethod, newPassword, keyPath, confirmed, iv) ==
  IF ~w.cfg.exists THEN Throw(w, NotInitializedError)
  ELSE Bind(verifyCurrent(w, password, iv),
            LAMBDA v :
              IF ~v.val
                THEN Throw(v, IF w.cfg.encryptionMethod = "password"
                                THEN "Current password is incorrect. Cannot proceed."
                                ELSE "Current SSH key is not accessible. Cannot proceed.")
              ELSE IF newMethod # "ssh" /\ ~confirmed THEN Throw(v, "Operation cancelled.")
              ELSE IF newMethod = "ssh" /\ ~validateSSHKey(v, keyPath)
                THEN Throw(v, "Invalid SSH key file. Please check the path and try again.")
              ELSE rotate(v, currentOptions(w, password), newMethod, newPassword, keyPath, iv))

\* linkCommand with the file id and the target given: an encrypted file
\* is copied whatever was asked; autoSync is false unless --auto-sync.
linkCommand(w, fileId, targetPath, copy, autoSync, password) ==
  IF ~w.cfg.exists THEN Throw(w, NotInitializedError)
  ELSE Bind(findEnvFile(w, fileId),
            LAMBDA f :
              IF copy \/ f.val.encrypted
                THEN createCopy(f, fileId, resolve(targetPath),
                                getEncryptionOptions(w, password), autoSync)
                ELSE createSymlink(f, fileId, resolve(targetPath),
                                   getEncryptionOptions(w, password)))

RECURSIVE unlinkEach(_, _)
unlinkEach(w, ls) ==
  IF ls = <<>> THEN w
  ELSE unlinkEach(unlink(w, Head(ls).targetPath), Tail(ls))

\* deleteCommand with the file id given; confirmed is the answer to the
\* confirmation prompt.
deleteCommand(w, fileId, confirmed) ==
  IF ~w.cfg.exists THEN Throw(w, NotInitializedError)
  ELSE IF ~confirmed THEN Return(w, "cancelled")
  ELSE Bind(deleteEnvFile(unlinkEach(w, getLinksForEnvFile(w, fileId)), fileId),
            LAMBDA x : Return(Caught(sync(x)), "deleted"))

\* syncCommand: --pull, --push, or the full sync.
syncCommand(w, optPull, optPush) ==
  IF ~w.cfg.exists THEN Throw(w, NotInitializedError)
  ELSE IF w.vault # "repo" THEN Throw(w, NotARepoError)
  ELSE IF optPull /\ ~optPush THEN pull(w)
  ELSE IF optPush /\ ~optPull
    THEN Bind(IF Tree(w) # w.head THEN commitChanges(w) ELSE w, LAMBDA x : push(x))
  ELSE sync(w)

(***************************************************************************)
(* Actions.  Apply makes the world after a call the next state; the bounds *)
(* cap the history and the number of salts ever drawn.                     *)
(***************************************************************************)
Ret(op, w, id, target) ==
  [op |-> op, ok |-> Ok(w), err |-> w.err, id |-> id, target |-> target, how |-> "",
   res |-> 0, calls |-> <<>>]

RetHow(op, w, how) ==
  [op |-> op, ok |-> Ok(w), err |-> w.err, id |-> "", target |-> "", how |-> how,
   res |-> 0, calls |-> <<>>]

\* The return of a call whose value and git commands a claim reads.
RetRes(op, w) ==
  [op |-> op, ok |-> Ok(w), err |-> w.err, id |-> "", target |-> "", how |-> "",
   res |-> w.val, calls |-> w.calls]

Bounded(w) ==
  /\ \A c \in SeqToSet(w.log) \cup SeqToSet(w.remote) : c <= MaxCommits
  /\ w.nsalt <= MaxSalts

Apply(w, r) ==
  /\ cfg' = w.cfg
  /\ manifest' = w.manifest
  /\ blobs' = w.blobs
  /\ locked' = w.locked
  /\ uchg' = w.uchg
  /\ host' = w.host
  /\ salt' = w.salt
  /\ nsalt' = w.nsalt
  /\ vault' = w.vault
  /\ head' = w.head
  /\ log' = w.log
  /\ upstream' = w.upstream
  /\ remote' = w.remote
  /\ remoteTree' = w.remoteTree
  /\ links' = w.links
  /\ fs' = w.fs
  /\ ret' = r

\* The state envmatic init leaves on a new machine whose remote has no
\* history: the INIT path's first commit of an empty manifest (and of the
\* salt that verifying the encryption wrote), no upstream yet.
InitializedOn(c, h) ==
  LET s == IF c.encryptionEnabled THEN 1 ELSE 0
      tree == [manifest |-> [EmptyManifest EXCEPT !.exists = TRUE],
               blobs |-> NoBlobs, salt |-> s]
  IN  /\ cfg = c
      /\ manifest = tree.manifest
      /\ blobs = NoBlobs
      /\ locked = {}
      /\ uchg = {}
      /\ host = h
      /\ salt = s
      /\ nsalt = s
      /\ vault = "repo"
      /\ head = tree
      /\ log = <<1>>
      /\ upstream = NoUpstream
      /\ remote = <<>>
      /\ remoteTree = EmptyTree
      /\ links = <<>>
      /\ fs = NoTargets
      /\ ret = NoRet

\* The same on a Linux machine.
InitializedVault(c) == InitializedOn(c, Linux)

(***************************************************************************)
(* SpecStore: the envfile service called through the package's exports     *)
(* (createEnvFile, updateEnvFile, deleteEnvFile, readEnvFile) on an        *)
(* initialized vault.                                                      *)
(***************************************************************************)
StoreOptions == {NoOptions, PasswordOptions("correctpw12")}
CreateVars == {[k \in Keys |-> "3000"]}
UpdateVars == {[k \in Keys |-> "a b"]}

InitStore ==
  \E enc \in BOOLEAN : InitializedVault(createInitialConfig(enc, IF enc THEN "password" ELSE "none", "", FALSE))

CreateEnvFile ==
  \E p \in Projects, e \in Environments, v \in CreateVars, o \in StoreOptions :
    LET w == createEnvFile(World, p, e, v, "", o, "unset", 1)
    IN  /\ Bounded(w)
        /\ Apply(w, Ret("createEnvFile", w, generateFileId(p, e, DEFAULT_NAME), ""))

UpdateEnvFile ==
  \E id \in FileIds, v \in UpdateVars, o \in StoreOptions :
    LET w == updateEnvFile(World, id, v, o, 2)
    IN  /\ Bounded(w)
        /\ Apply(w, Ret("updateEnvFile", w, id, ""))

DeleteEnvFile ==
  \E id \in FileIds :
    LET w == deleteEnvFile(World, id)
    IN  /\ Bounded(w)
        /\ Apply(w, Ret("deleteEnvFile", w, id, ""))

ReadEnvFile ==
  \E id \in FileIds, o \in StoreOptions :
    LET w == readEnvFile(World, id, o)
    IN  /\ Bounded(w)
        /\ Apply(w, Ret("readEnvFile", w, id, ""))

NextStore == CreateEnvFile \/ UpdateEnvFile \/ DeleteEnvFile \/ ReadEnvFile

SpecStore == InitStore /\ [][NextStore]_vars

(***************************************************************************)
(* C1: manifest.projects is exactly the set of distinct project values of  *)
(* manifest.files, after any sequence of createEnvFile and deleteEnvFile   *)
(* calls with arbitrary project/environment/name strings.                  *)
(***************************************************************************)
C1_ProjectsEqualFileProjects ==
  SeqToSet(manifest.projects) = {f.project : f \in SeqToSet(manifest.files)}

\* The ids the manifest holds a record for.
ManifestIds == {f.id : f \in SeqToSet(manifest.files)}

(***************************************************************************)
(* C9: when createEnvFile, updateEnvFile or deleteEnvFile returns          *)
(* successfully, the manifest on disk reflects the mutation (the record is *)
(* there after a create or an update, gone after a delete) and the working *)
(* tree has no uncommitted change.                                         *)
(***************************************************************************)
C9_MutationWrittenAndCommitted ==
  (ret.ok /\ ret.op \in {"createEnvFile", "updateEnvFile", "deleteEnvFile"}) =>
     /\ manifest.exists
     /\ ret.op \in {"createEnvFile", "updateEnvFile"} =>
          /\ ret.id \in ManifestIds
          /\ \E i \in 1..Len(manifest.files) :
               /\ manifest.files[i].id = ret.id
               /\ blobs[getEnvFilePath(ret.id, manifest.files[i].encrypted)] # NoFile
     /\ ret.op = "deleteEnvFile" => ret.id \notin ManifestIds
     /\ head = [manifest |-> manifest, blobs |-> blobs, salt |-> salt]

C9_Witness ==
  /\ ret.ok
  /\ ret.op = "updateEnvFile"
  /\ Len(log) >= 3
  /\ head.blobs # NoBlobs

(***************************************************************************)
(* SpecGit: a machine where envmatic has never run, facing a remote that   *)
(* is empty or already holds the history another machine pushed (one env   *)
(* file, stored plain or encrypted under the vault's salt), and the        *)
(* commands init, add, set and sync on it.                                 *)
(***************************************************************************)
VaultPassword == "correctpw12"
RemoteFileId == generateFileId("a", "c", DEFAULT_NAME)
RemoteText == serializeEnvContent([k \in Keys |-> "3000"])

RemoteHistory(encrypted) ==
  LET envFile == EnvFile(RemoteFileId, DEFAULT_NAME, "a", "c", encrypted, FALSE)
      blob == IF encrypted
                THEN Envelope(1, [material |-> VaultPassword, salt |-> 1], RemoteText)
                ELSE PlainFile(RemoteText)
  IN  [manifest |-> [exists |-> TRUE, files |-> <<envFile>>, projects |-> <<"a">>],
       blobs |-> [NoBlobs EXCEPT ![getEnvFilePath(RemoteFileId, encrypted)] = blob],
       salt |-> IF encrypted THEN 1 ELSE 0]

InitGit ==
  /\ cfg = NoConfig
  /\ manifest = EmptyManifest
  /\ blobs = NoBlobs
  /\ locked = {}
  /\ uchg = {}
  /\ host = Linux
  /\ salt = 0
  /\ vault = "absent"
  /\ head = EmptyTree
  /\ log = <<>>
  /\ upstream = NoUpstream
  /\ links = <<>>
  /\ fs = NoTargets
  /\ ret = NoRet
  /\ \/ remote = <<>> /\ remoteTree = EmptyTree /\ nsalt = 0
     \/ \E encrypted \in BOOLEAN :
          /\ remote = <<1>>
          /\ remoteTree = RemoteHistory(encrypted)
          /\ nsalt = remoteTree.salt

\* The ids the add command makes here: two files of one project.
AddIds == {generateFileId("a", e, DEFAULT_NAME) : e \in Environments}

InitCommand ==
  \E force \in BOOLEAN, method \in {"none", "password"} :
    LET w == initCommand(World, force, method, VaultPassword, FALSE, 1)
    IN  /\ Bounded(w)
        /\ Apply(Caught(w), RetHow("init", w, w.val))

AddCommand ==
  \E e \in Environments, v \in CreateVars :
    LET w == addCommand(World, "a", e, v, VaultPassword, 1)
    IN  /\ Bounded(w)
        /\ Apply(Caught(w), Ret("add", w, generateFileId("a", e, DEFAULT_NAME), ""))

SetCommand ==
  \E id \in AddIds, value \in Values :
    LET w == setCommand(World, id, "PORT", value, VaultPassword, 2)
    IN  /\ Bounded(w)
        /\ Apply(Caught(w), Ret("set", w, id, ""))

\* how: whether the call before this one was a sync() that returned.
Again == IF ret.op = "sync" /\ ret.ok THEN "again" ELSE "first"

\* sync() as the commands and the programmatic interface call it.
Sync ==
  LET w == sync(World)
  IN  /\ Bounded(w)
      /\ Apply(Caught(w), [RetRes("sync", w) EXCEPT !.how = Again])

SyncPush ==
  LET w == syncCommand(World, FALSE, TRUE)
  IN  /\ Bounded(w)
      /\ Apply(Caught(w), Ret("sync --push", w, "", ""))

SyncPull ==
  LET w == syncCommand(World, TRUE, FALSE)
  IN  /\ Bounded(w)
      /\ Apply(Caught(w), Ret("sync --pull", w, "", ""))

NextGit == InitCommand \/ AddCommand \/ SetCommand \/ Sync \/ SyncPush \/ SyncPull

SpecGit == InitGit /\ [][NextGit]_vars

\* The tree holds a blob stored encrypted.
HasEncryptedBlobs(tree) ==
  \E p \in VaultPaths : tree.blobs[p].kind = "sealed"

(***************************************************************************)
(* C2: the salt is created at most once per vault: once the remote holds a *)
(* salt and encrypted blobs, the salt a checkout of it derives keys from   *)
(* is that salt, never a newly generated one.                              *)
(***************************************************************************)
C2_SaltCreatedOncePerVault ==
  (remoteTree.salt # 0 /\ HasEncryptedBlobs(remoteTree) /\ salt # 0)
    => salt = remoteTree.salt

(***************************************************************************)
(* C3: when initCommand completes against a remote that has history, it    *)
(* took the CLONE path and the local manifest is the remote's; it took the *)
(* INIT path only when the remote has no history.                          *)
(***************************************************************************)
C3_CloneWhenRemoteHasHistory ==
  (ret.op = "init" /\ ret.ok) =>
     /\ remote # <<>> => (ret.how = "CLONE" /\ manifest = remoteTree.manifest)
     /\ ret.how = "INIT" => remote = <<>>

(***************************************************************************)
(* C4: whenever sync() returns without error, every local commit is on the *)
(* remote (the branch is not ahead), also when the repository was made by  *)
(* the INIT path and its branch had no upstream.                           *)
(***************************************************************************)
C4_SyncLeavesNothingUnpushed ==
  (ret.op = "sync" /\ ret.ok) => IsPrefix(log, remote)

(***************************************************************************)
(* SpecSync: the git service on one checkout (commitChanges, pull, push,   *)
(* sync), next to a second checkout that pushes to the same remote.  sync  *)
(* is taken whole (Sync) and also await by await (SyncCommitStep,          *)
(* SyncPullStep, SyncPushStep), so that the other checkout's push can fall *)
(* between its pull and its push.  While a sync is in flight, ret.op names *)
(* the step it has completed and ret.res, ret.calls hold its locals; a     *)
(* sync whose process is killed between two awaits is one that another     *)
(* call follows before its next step.                                      *)
(***************************************************************************)
\* The state envmatic init leaves on a new machine whose remote has the
\* history another machine pushed: the CLONE path, the branch tracking
\* origin/main.
ClonedVault(c) ==
  /\ cfg = c
  /\ manifest = RemoteHistory(FALSE).manifest
  /\ blobs = RemoteHistory(FALSE).blobs
  /\ locked = {}
  /\ uchg = {}
  /\ host = Linux
  /\ salt = 0
  /\ nsalt = 0
  /\ vault = "repo"
  /\ head = RemoteHistory(FALSE)
  /\ log = <<1>>
  /\ upstream = Upstream(<<1>>)
  /\ remote = <<1>>
  /\ remoteTree = RemoteHistory(FALSE)
  /\ links = <<>>
  /\ fs = NoTargets
  /\ ret = NoRet

InitSync ==
  \/ InitializedVault(createInitialConfig(FALSE, "none", "", FALSE))
  \/ ClonedVault(createInitialConfig(FALSE, "none", "", FALSE))

\* The world a sync in flight continues in.
Resumed(online) ==
  [World EXCEPT !.val = ret.res, !.calls = ret.calls, !.online = online]

\* how: whether the remote answered during the call.
Net(online) == IF online THEN "online" ELSE "offline"

\* createEnvFile when the process is killed after fs.writeFile: the blob is
\* in the working tree, the manifest and the history are as before.
createEnvFileKilled(w, project, environment, variables) ==
  writeVaultFile(w, getEnvFilePath(generateFileId(project, environment, DEFAULT_NAME), FALSE),
                 PlainFile(serializeEnvContent(variables)))

CreateEnvFileKilled ==
  \E v \in UpdateVars :
    LET w == createEnvFileKilled(World, "a", "c", v)
    IN  /\ cfg.exists /\ vault = "repo"
        /\ Apply(w, Ret("killed", w, "", ""))

CreateLocal ==
  \E v \in CreateVars :
    LET w == createEnvFile(World, "a", "b/c", v, "", NoOptions, "unset", 1)
    IN  /\ Bounded(w)
        /\ Apply(w, Ret("createEnvFile", w, generateFileId("a", "b/c", DEFAULT_NAME), ""))

CommitChanges ==
  LET w == commitChanges(World)
  IN  /\ Bounded(w)
      /\ Apply(Caught(w), RetRes("commitChanges", w))

Push ==
  \E online \in BOOLEAN :
    LET w == push([World EXCEPT !.online = online])
    IN  /\ Bounded(w)
        /\ Apply(Caught(w), [RetRes("push", w) EXCEPT !.how = Net(online)])

SyncCommitStep ==
  LET w == syncCommit(World)
  IN  /\ Bounded(w)
      /\ Apply(Caught(w), RetRes(IF Ok(w) THEN "sync.commit" ELSE "sync", w))

SyncPullStep ==
  \E online \in BOOLEAN :
    LET w == syncPull(Resumed(online))
    IN  /\ ret.ok /\ ret.op = "sync.commit"
        /\ Bounded(w)
        /\ Apply(Caught(w), [RetRes(IF Ok(w) THEN "sync.pull" ELSE "sync", w)
                               EXCEPT !.how = Net(online)])

SyncPushStep ==
  \E online \in BOOLEAN :
    LET w == syncPush(Resumed(online))
    IN  /\ ret.ok /\ ret.op = "sync.pull"
        /\ Bounded(w)
        /\ Apply(Caught(w), [RetRes("sync", w) EXCEPT !.how = Net(online)])

\* The tree the other checkout pushes: the remote's, with its own env file.
OtherTree(tree) ==
  [manifest |-> upsertEnvFile([tree.manifest EXCEPT !.exists = TRUE],
                              EnvFile(RemoteFileId, DEFAULT_NAME, "a", "c", FALSE, FALSE)),
   blobs |-> [tree.blobs EXCEPT ![getEnvFilePath(RemoteFileId, FALSE)] = PlainFile(RemoteText)],
   salt |-> tree.salt]

\* The other checkout, in sync with the remote, commits and pushes.
OtherPush ==
  /\ NewCommit(World) <= MaxCommits
  /\ remote' = Append(remote, NewCommit(World))
  /\ remoteTree' = OtherTree(remoteTree)
  /\ UNCHANGED <<cfg, manifest, blobs, locked, uchg, host, salt, nsalt, vault, head, log,
                 upstream, links, fs, ret>>

NextSync ==
  \/ CreateLocal
  \/ CreateEnvFileKilled
  \/ CommitChanges
  \/ Push
  \/ Sync
  \/ SyncPull
  \/ SyncCommitStep
  \/ SyncPullStep
  \/ SyncPushStep
  \/ OtherPush

SpecSync == InitSync /\ [][NextSync]_vars

(***************************************************************************)
(* C11: a commit is created only when the tree has changes: commitChanges  *)
(* on a clean tree adds no commit, and a sync() that follows a sync() with *)
(* no local or remote change in between returns committed:false and        *)
(* pushed:false and adds no commit to the local or the remote history.     *)
(***************************************************************************)
C11_NoEmptyCommit ==
  [][
    /\ (CommitChanges /\ Tree(World) = head)
         => (log' = log /\ head' = head /\ ret'.calls = <<>>)
    /\ (Sync /\ ret.op = "sync" /\ ret.ok /\ (upstream.set => upstream.at = remote))
         => (/\ ret'.ok
             /\ ~ret'.res.committed
             /\ ~ret'.res.pushed
             /\ log' = log
             /\ remote' = remote)
  ]_vars

\* A second sync() returned on a checkout that tracks the remote and has
\* history of its own.
C11_Witness ==
  /\ ret.op = "sync" /\ ret.ok /\ ret.how = "again"
  /\ upstream.set /\ upstream.at = remote
  /\ Len(log) >= 3

\* The git commands of a sync, in the order commit, pull, push.
SyncOrders ==
  {<<>>, <<"commit">>, <<"pull">>, <<"commit", "pull">>, <<"pull", "push">>,
   <<"commit", "pull", "push">>}

(***************************************************************************)
(* C12: in every execution of sync() the steps occur in the order commit,  *)
(* pull, push (the pull is always run); a commit is made if and only if    *)
(* the tree was dirty at entry, and a push is attempted if and only if the *)
(* status read after the pull step reports ahead > 0.                      *)
(***************************************************************************)
C12_CommitPullPush ==
  [][
    /\ ret'.op \in {"sync", "sync.commit", "sync.pull"} => ret'.calls \in SyncOrders
    /\ (ret'.op \in {"sync", "sync.pull"} /\ ret'.ok) => includes(ret'.calls, "pull")
    /\ SyncCommitStep =>
         /\ includes(ret'.calls, "commit") <=> Tree(World) # head
         /\ log' # log <=> Tree(World) # head
         /\ ret'.res.committed <=> Tree(World) # head
    /\ SyncPushStep => (includes(ret'.calls, "push") <=> ahead(World) > 0)
  ]_vars

\* A sync() ran all three steps.
C12_Witness ==
  ret.op = "sync" /\ ret.ok /\ ret.calls = <<"commit", "pull", "push">>

(***************************************************************************)
(* C13: pull on a repository whose branch has no upstream completes        *)
(* without error, as the pull step of sync() and as the pull() that        *)
(* sync --pull calls.                                                      *)
(***************************************************************************)
C13_PullWithoutUpstreamSkips ==
  [][
    ((Sync \/ SyncPull) /\ cfg.exists /\ vault = "repo" /\ ~upstream.set) => ret'.ok
  ]_vars

(***************************************************************************)
(* C14: push() on a branch with no recorded upstream does not fail: it     *)
(* pushes the branch to origin and records the upstream (whenever the push *)
(* is a fast-forward of a remote that answers); a failure of any other     *)
(* kind is rethrown and leaves the remote as it was.                       *)
(***************************************************************************)
C14_PushEstablishesUpstream ==
  [][
    Push =>
      /\ (ret'.how = "online" /\ IsPrefix(remote, log))
           => (ret'.ok /\ remote' = log /\ upstream' = Upstream(log))
      /\ (ret'.how = "online" /\ ~IsPrefix(remote, log))
           => (~ret'.ok /\ ret'.err = RejectedError /\ remote' = remote)
      /\ ret'.how = "offline"
           => (~ret'.ok /\ ret'.err = UnreachableError /\ remote' = remote)
  ]_vars

\* push() returned after the plain push was refused for the missing
\* upstream and the second push recorded it.
C14_Witness ==
  /\ ret.op = "push" /\ ret.ok
  /\ ret.calls = <<"push", "push">>
  /\ upstream = Upstream(log) /\ remote = log

(***************************************************************************)
(* C15: sync() on a repository that has an upstream, a clean tree, no      *)
(* commit to push and nothing new on the remote returns committed, pulled  *)
(* and pushed all false.                                                   *)
(***************************************************************************)
C15_FlagsOnlyWhenActed ==
  [][
    (Sync /\ upstream.set /\ Tree(World) = head /\ upstream.at = remote /\ log = remote)
      => (ret'.ok /\ ret'.res = [pulled |-> FALSE, pushed |-> FALSE, committed |-> FALSE])
  ]_vars

\* The branches have diverged: each holds a commit the other lacks.
Diverged == ~IsPrefix(remote, log) /\ ~IsPrefix(log, remote)

(***************************************************************************)
(* C16: when the pull step of sync() fails for a reason other than the     *)
(* missing upstream (the remote does not answer, the branches have         *)
(* diverged), sync() throws that error, the pull is run once and no push   *)
(* is attempted, and the local history, with the commit of the commit      *)
(* step, is as it was; the remote is untouched.                            *)
(***************************************************************************)
C16_PullFailurePropagates ==
  [][
    (SyncPullStep /\ (ret'.how = "offline" \/ (upstream.set /\ Diverged)))
      => (/\ ~ret'.ok
          /\ ret'.op = "sync"
          /\ ret'.err = IF ret'.how = "offline" THEN UnreachableError ELSE DivergedError
          /\ ret'.calls = Append(ret.calls, "pull")
          /\ log' = log /\ head' = head
          /\ remote' = remote /\ remoteTree' = remoteTree)
  ]_vars

\* sync() threw at its pull, after its commit step made a commit.
C16_Witness ==
  /\ ret.op = "sync" /\ ~ret.ok /\ ret.err = DivergedError
  /\ ret.calls = <<"commit", "pull">>
  /\ head = [manifest |-> manifest, blobs |-> blobs, salt |-> salt]

(***************************************************************************)
(* C17: when the other checkout pushes between this sync()'s pull step and *)
(* its push step, this sync() fails with the push rejection instead of     *)
(* returning pushed:true, and the other checkout's commits stay on the     *)
(* remote.                                                                 *)
(***************************************************************************)
C17_RacingPushRejected ==
  [][
    (SyncPushStep /\ ret'.how = "online" /\ ahead(World) > 0 /\ ~IsPrefix(remote, log))
      => (/\ ~ret'.ok
          /\ ret'.err = RejectedError
          /\ ~ret'.res.pushed
          /\ remote' = remote /\ remoteTree' = remoteTree)
  ]_vars

\* sync() threw at its push: the remote holds a commit of the other
\* checkout that the pull of this sync() had not seen.
C17_Witness ==
  /\ ret.op = "sync" /\ ~ret.ok /\ ret.err = RejectedError
  /\ ret.calls \in {<<"pull", "push">>, <<"commit", "pull", "push">>}
  /\ \E i \in 1..Len(remote) : ~includes(log, remote[i])

(***************************************************************************)
(* SpecLink: the linker service (createSymlink, createCopy, unlink) and    *)
(* the commands add and delete, on an initialized vault with encryption    *)
(* enabled or disabled.                                                    *)
(***************************************************************************)
LinkTargets == {".env", "./.env", "app/.env"}

InitLink ==
  \E enc \in BOOLEAN :
    InitializedVault(createInitialConfig(enc, IF enc THEN "password" ELSE "none", "", FALSE))

\* how: whether the registry already held a record for the target.
Relink(target) ==
  IF \E i \in 1..Len(links) : links[i].targetPath = target THEN "relink" ELSE "new"

CreateSymlink ==
  \E id \in AddIds, t \in LinkTargets :
    LET w == createSymlink(World, id, t, getEncryptionOptions(World, VaultPassword))
    IN  /\ Bounded(w)
        /\ Apply(Caught(w), [Ret("createSymlink", w, id, resolve(t))
                               EXCEPT !.how = Relink(resolve(t))])

CreateCopy ==
  \E id \in AddIds, t \in LinkTargets :
    LET w == createCopy(World, id, t, getEncryptionOptions(World, VaultPassword), FALSE)
    IN  /\ Bounded(w)
        /\ Apply(Caught(w), [Ret("createCopy", w, id, resolve(t))
                               EXCEPT !.how = Relink(resolve(t))])

\* res: what unlink returned.
Unlink ==
  \E t \in LinkTargets :
    LET w == unlink(World, t)
    IN  /\ Bounded(w)
        /\ Apply(Caught(w), [Ret("unlink", w, "", resolve(t)) EXCEPT !.res = w.val])

UnsetCommand ==
  \E id \in AddIds :
    LET w == unsetCommand(World, id, "PORT", VaultPassword, 2)
    IN  /\ Bounded(w)
        /\ Apply(Caught(w), Ret("unset", w, id, ""))

DeleteCommand ==
  \E id \in AddIds, confirmed \in BOOLEAN :
    LET w == deleteCommand(World, id, confirmed)
    IN  /\ Bounded(w)
        /\ Apply(Caught(w), [Ret("delete", w, id, "")
                               EXCEPT !.how = IF Ok(w) THEN w.val ELSE "failed"])

NextLink == AddCommand \/ DeleteCommand \/ CreateSymlink \/ CreateCopy \/ Unlink

SpecLink == InitLink /\ [][NextLink]_vars

(***************************************************************************)
(* SpecEdit: the commands that change a file's content (add of an id that  *)
(* exists, set, unset) on a vault whose files have copies.                 *)
(***************************************************************************)
NextEdit == AddCommand \/ SetCommand \/ UnsetCommand \/ CreateCopy

SpecEdit == InitLink /\ [][NextEdit]_vars

(***************************************************************************)
(* What the claims about links read from a state.                          *)
(***************************************************************************)
\* The records of the file in the manifest (a sequence of none or one).
RecordsOf(m, fileId) == SelectSeq(m.files, LAMBDA f : f.id = fileId)

\* The text a vault file holds, in the clear or under its envelope.
TextOf(file) == IF file.kind = "sealed" THEN file.encrypted.text ELSE file.text

\* The current text of a stored file: what its blob holds in the clear.
CurrentText(fileId) ==
  TextOf(blobs[getEnvFilePath(fileId, RecordsOf(manifest, fileId)[1].encrypted)])

LinksOf(ls, fileId) == SelectSeq(ls, LAMBDA l : l.sourceId = fileId)

(***************************************************************************)
(* C5: createSymlink on a record with encrypted:true fails, and when it    *)
(* fails nothing has been mutated: what was at the target is still there   *)
(* and the link registry is unchanged.                                     *)
(***************************************************************************)
C5_EncryptedSymlinkRejectedUntouched ==
  [][
    (/\ ret'.op = "createSymlink"
     /\ RecordsOf(manifest, ret'.id) # <<>>
     /\ RecordsOf(manifest, ret'.id)[1].encrypted)
      => (~ret'.ok /\ fs' = fs /\ links' = links)
  ]_vars

(***************************************************************************)
(* C6: createCopy at a target that holds a symlink an earlier createSymlink*)
(* registered first clears it: afterwards the target is a regular file     *)
(* with the new source's content, and the vault file the symlink pointed   *)
(* to is unchanged.                                                        *)
(***************************************************************************)
C6_CopyClearsRegisteredSymlink ==
  [][
    (/\ ret'.op = "createCopy"
     /\ ret'.ok
     /\ fs[ret'.target].kind = "symlink"
     /\ \E i \in 1..Len(links) :
          links[i].targetPath = ret'.target /\ links[i].type = "symlink")
      => (/\ fs'[ret'.target].kind = "plain"
          /\ fs'[ret'.target].text =
               TextOf(blobs'[getEnvFilePath(ret'.id,
                                            RecordsOf(manifest', ret'.id)[1].encrypted)])
          /\ blobs'[fs[ret'.target].to] = blobs[fs[ret'.target].to])
  ]_vars

(***************************************************************************)
(* C7: the registry holds at most one record per resolved target path, and *)
(* after a create at a target the record of that target is the one this    *)
(* create made, also when the target had a record before.                  *)
(***************************************************************************)
C7_OneRecordPerTarget ==
  /\ \A i, j \in 1..Len(links) :
       links[i].targetPath = links[j].targetPath => i = j
  /\ \A i \in 1..Len(links) : links[i].targetPath \in AbsolutePaths
  /\ (ret.ok /\ ret.op \in {"createSymlink", "createCopy"}) =>
       \E i \in 1..Len(links) :
         /\ links[i].targetPath = ret.target
         /\ links[i].sourceId = ret.id
         /\ links[i].type = IF ret.op = "createCopy" THEN "copy" ELSE "symlink"

\* A create succeeded at a target that held the record of another file.
C7_Witness ==
  /\ ret.ok
  /\ ret.op \in {"createSymlink", "createCopy"}
  /\ ret.how = "relink"
  /\ Len(links) = 2

(***************************************************************************)
(* C8: after a confirmed deleteCommand for a record that has two link      *)
(* records, no link record of that file remains, neither target exists on  *)
(* disk, the record and its blob are gone, and the project is removed from *)
(* manifest.projects exactly when no other file of the project remains.    *)
(***************************************************************************)
C8_DeleteRemovesLinksAndRecord ==
  [][
    (/\ ret'.op = "delete"
     /\ ret'.how = "deleted"
     /\ RecordsOf(manifest, ret'.id) # <<>>
     /\ Len(LinksOf(links, ret'.id)) = 2)
      => LET metadata == RecordsOf(manifest, ret'.id)[1]
         IN  /\ LinksOf(links', ret'.id) = <<>>
             /\ \A i \in 1..2 : fs'[LinksOf(links, ret'.id)[i].targetPath] = NoFile
             /\ RecordsOf(manifest', ret'.id) = <<>>
             /\ blobs'[getEnvFilePath(metadata.id, metadata.encrypted)] = NoFile
             /\ includes(manifest'.projects, metadata.project)
                  <=> \E i \in 1..Len(manifest'.files) :
                        manifest'.files[i].project = metadata.project
  ]_vars

(***************************************************************************)
(* SpecCopies: files with copies whose source changes (updateEnvFile does  *)
(* not refresh copies), and syncCopies called while some of the targets    *)
(* refuse a write.                                                         *)
(***************************************************************************)
UpdateLocal ==
  \E id \in AddIds, v \in UpdateVars :
    LET w == updateEnvFile(World, id, v, getEncryptionOptions(World, VaultPassword), 2)
    IN  /\ Bounded(w)
        /\ Apply(w, Ret("updateEnvFile", w, id, ""))

\* res: the number syncCopies returned, and the targets that refused the
\* write during the call.
SyncCopies ==
  \E id \in AddIds, ro \in SUBSET AbsolutePaths :
    LET w == syncCopies([World EXCEPT !.readonly = ro], id,
                        getEncryptionOptions(World, VaultPassword))
    IN  /\ Bounded(w)
        /\ Apply(Caught(w), [Ret("syncCopies", w, id, "")
                               EXCEPT !.res = [synced |-> w.val, readonly |-> ro]])

NextCopies == AddCommand \/ UpdateLocal \/ CreateCopy \/ SyncCopies

SpecCopies == InitLink /\ [][NextCopies]_vars

\* The registered copies of a file.
CopiesOf(ls, fileId) ==
  SelectSeq(ls, LAMBDA l : l.sourceId = fileId /\ l.type = "copy")

(***************************************************************************)
(* C18: when syncCopies runs over the N registered copies of a file and    *)
(* exactly one of their targets is unwritable, the call does not throw, it *)
(* returns N-1, the other N-1 targets hold the serialization of the        *)
(* source's current variables, and the unwritable target is as it was.     *)
(***************************************************************************)
C18_OneUnwritableTarget ==
  [][
    (/\ ret'.op = "syncCopies"
     /\ RecordsOf(manifest, ret'.id) # <<>>
     /\ Cardinality(ret'.res.readonly) = 1
     /\ \E i \in 1..Len(CopiesOf(links, ret'.id)) :
          CopiesOf(links, ret'.id)[i].targetPath \in ret'.res.readonly)
      => (/\ ret'.ok
          /\ ret'.res.synced = Len(CopiesOf(links, ret'.id)) - 1
          /\ links' = links
          /\ \A i \in 1..Len(CopiesOf(links, ret'.id)) :
               LET t == CopiesOf(links, ret'.id)[i].targetPath
               IN  IF t \in ret'.res.readonly
                     THEN fs'[t] = fs[t]
                     ELSE fs'[t] = PlainFile(CurrentText(ret'.id)))
  ]_vars

\* syncCopies returned 1 for a file with two copies: the stale copy at the
\* unwritable target is still stale, the other is current.
C18_Witness ==
  /\ ret.op = "syncCopies" /\ ret.ok
  /\ ret.res = [synced |-> 1, readonly |-> {"/w/.env"}]
  /\ Len(CopiesOf(links, ret.id)) = 2
  /\ fs["/w/.env"] # PlainFile(CurrentText(ret.id))
  /\ fs["/w/app/.env"] = PlainFile(CurrentText(ret.id))

(***************************************************************************)
(* SpecRepair: links whose targets or sources go away (the user removes a  *)
(* target; a file is stored again with or without encryption, or deleted,  *)
(* through the envfile service), and validateLink and repairLinks on them. *)
(***************************************************************************)
RepairId == generateFileId("a", "c", DEFAULT_NAME)

\* createEnvFile of one file, with encryption options or without.
StoreFile ==
  \E v \in CreateVars, o \in StoreOptions :
    LET w == createEnvFile(World, "a", "c", v, "", o, "unset", 1)
    IN  /\ Bounded(w)
        /\ Apply(w, Ret("createEnvFile", w, RepairId, ""))

\* The user removes what is at a link target.
RemoveTarget ==
  \E t \in AbsolutePaths :
    /\ lexists(World, t)
    /\ Apply(remove(World, t), Ret("rm", World, "", t))

\* res: the record validated and the verdict.
ValidateLink ==
  \E i \in 1..Len(links) :
    Apply(World, [Ret("validateLink", World, links[i].sourceId, links[i].targetPath)
                    EXCEPT !.res = [link |-> links[i],
                                    validation |-> validateLink(World, links[i])]])

\* res: what repairLinks returned.
RepairLinks ==
  \E password \in Passwords :
    LET w == repairLinks(World, getEncryptionOptions(World, password))
    IN  /\ Bounded(w)
        /\ Apply(Caught(w), [Ret("repairLinks", w, "", "") EXCEPT !.res = w.val])

NextRepair ==
  \/ StoreFile
  \/ DeleteEnvFile
  \/ CreateSymlink
  \/ CreateCopy
  \/ RemoveTarget
  \/ ValidateLink
  \/ RepairLinks
  \/ Unlink

SpecRepair == InitLink /\ [][NextRepair]_vars

\* The registry holds a record for the target.
Registered(ls, targetPath) == \E i \in 1..Len(ls) : ls[i].targetPath = targetPath

\* The source of a link no longer exists: its record or its file is gone.
SourceGone(m, b, fileId) ==
  \/ RecordsOf(m, fileId) = <<>>
  \/ b[getEnvFilePath(fileId, RecordsOf(m, fileId)[1].encrypted)] = NoFile

(***************************************************************************)
(* C19: repairLinks removes a record from the registry only when its       *)
(* source no longer exists, and counts it in removed; a record whose       *)
(* recreation fails for another reason is reported in errors and stays     *)
(* registered; every invalid record is processed (repaired, removed or     *)
(* reported).                                                              *)
(***************************************************************************)
C19_RepairKeepsFailedRecords ==
  [][
    ret'.op = "repairLinks" =>
      /\ \A i \in 1..Len(links) :
           \/ Registered(links', links[i].targetPath)
           \/ SourceGone(manifest, blobs, links[i].sourceId)
      /\ ret'.res.removed =
           Cardinality({i \in 1..Len(links) : ~Registered(links', links[i].targetPath)})
      /\ ret'.res.repaired + ret'.res.removed + Len(ret'.res.errors) <= Len(links)
  ]_vars

(***************************************************************************)
(* C21: unlink(targetPath) returns true exactly when a record for the      *)
(* resolved target was registered before the call; after it no record for  *)
(* that path is registered and there is no file system object at the path. *)
(***************************************************************************)
C21_UnlinkRemovesRecordAndObject ==
  [][
    ret'.op = "unlink" =>
      /\ ret'.ok
      /\ ret'.res = Registered(links, ret'.target)
      /\ ~Registered(links', ret'.target)
      /\ fs'[ret'.target] = NoFile
  ]_vars

(***************************************************************************)
(* C20: validateLink reports a symlink record valid only if its source id  *)
(* is in the manifest and the target is a symlink to the vault path of     *)
(* that source.                                                            *)
(***************************************************************************)
C20_ValidSymlinkHasSource ==
  (/\ ret.op = "validateLink"
   /\ ret.res.link.type = "symlink"
   /\ ret.res.validation.valid)
    => /\ RecordsOf(manifest, ret.id) # <<>>
       /\ fs[ret.target] =
            Symlink(getEnvFilePath(ret.id, RecordsOf(manifest, ret.id)[1].encrypted))

(***************************************************************************)
(* SpecProtect: the protection service (makeImmutable, makeMutable,        *)
(* withWriteAccess) and the commands that write a protected file (add,     *)
(* set, unset, edit), on Linux, Windows and macOS, in a vault without      *)
(* encryption whose files are immutable by default or not.                 *)
(***************************************************************************)
InitProtect ==
  \E h \in Hosts, immutableByDefault \in BOOLEAN :
    InitializedOn(createInitialConfig(FALSE, "none", "", immutableByDefault), h)

ProtectId == generateFileId("a", "c", DEFAULT_NAME)
ProtectPath == getEnvFilePath(ProtectId, FALSE)

\* envmatic add of the one file.
AddProtected ==
  \E v \in CreateVars :
    LET w == addCommand(World, "a", "c", v, VaultPassword, 1)
    IN  /\ Bounded(w)
        /\ Apply(Caught(w), Ret("add", w, ProtectId, ""))

\* how: whether the call before was a makeImmutable of the path that
\* reported success; res: what this call returned.
MakeImmutable ==
  LET w == makeImmutable(World, ProtectPath)
  IN  /\ Bounded(w)
      /\ Apply(Caught(w),
               [Ret("makeImmutable", w, ProtectId, ProtectPath)
                  EXCEPT !.res = w.val,
                         !.how = IF ret.op = "makeImmutable" /\ ret.res = TRUE
                                   THEN "again" ELSE "first"])

MakeMutable ==
  LET w == makeMutable(World, ProtectPath)
  IN  /\ Bounded(w)
      /\ Apply(Caught(w), [Ret("makeMutable", w, ProtectId, ProtectPath) EXCEPT !.res = w.val])

\* how: the callback; res: what withWriteAccess returned.
WithWriteAccess ==
  \E action \in Callbacks, v \in UpdateVars :
    LET w == withWriteAccess(World, ProtectPath, action, serializeEnvContent(v))
    IN  /\ Bounded(w)
        /\ Apply(Caught(w),
                 [Ret("withWriteAccess", w, ProtectId, ProtectPath)
                    EXCEPT !.res = w.val, !.how = action])

\* isImmutable(path) in the current state.
IsLocked(path) == isImmutable(World, path)

(***************************************************************************)
(* C22: on every platform, makeImmutable of an existing file, called once  *)
(* or a second time, reports success, and isImmutable(path) is true after  *)
(* the call.                                                               *)
(***************************************************************************)
C22_LockTwiceStaysLocked ==
  [][
    (MakeImmutable /\ vaultPathExists(World, ProtectPath))
      => (ret'.res = TRUE /\ IsLocked(ProtectPath)')
  ]_vars

(***************************************************************************)
(* C23: withWriteAccess(path, action) on an existing file: the action runs *)
(* while the file is unlocked (its write succeeds), what the action        *)
(* returns or throws is what the call returns or throws, and               *)
(* isImmutable(path) after the call equals its value at entry.             *)
(***************************************************************************)
C23_WriteAccessRestoresLock ==
  [][
    (WithWriteAccess /\ vaultPathExists(World, ProtectPath))
      => /\ IsLocked(ProtectPath)' = IsLocked(ProtectPath)
         /\ ret'.how = "write" => (ret'.ok /\ ret'.res = "written")
         /\ ret'.how # "write" => (~ret'.ok /\ ret'.err = "callback failed")
         /\ ret'.how # "throw" => blobs'[ProtectPath] \in {PlainFile(serializeEnvContent(v)) : v \in UpdateVars}
  ]_vars

\* how: the exit chosen; res: what the command printed last.
EditCommand ==
  \E edit \in Edits, exit \in Exits :
    LET w == editCommand(World, ProtectId, VaultPassword, edit, exit, 2)
    IN  /\ Bounded(w)
        /\ Apply(Caught(w), [Ret("edit", w, ProtectId, "")
                               EXCEPT !.how = exit, !.res = w.val])

(***************************************************************************)
(* C30: for a record with immutable true whose file is locked when         *)
(* interactive envmatic edit starts, the file is locked again when the     *)
(* command ends, whichever exit is taken (save with or without             *)
(* modifications, discard, or an error while saving).                      *)
(***************************************************************************)
C30_EditRelocksOnEveryExit ==
  [][
    (/\ EditCommand
     /\ RecordsOf(manifest, ProtectId) # <<>>
     /\ RecordsOf(manifest, ProtectId)[1].immutable
     /\ IsLocked(ProtectPath))
      => IsLocked(ProtectPath)'
  ]_vars

(***************************************************************************)
(* C24: for a record with immutable true whose file is locked, envmatic    *)
(* set and envmatic unset succeed (the file is unlocked for the write) and *)
(* the file is locked again when the command finishes.                     *)
(***************************************************************************)
C24_SetUnlocksWritesRelocks ==
  [][
    (/\ SetCommand \/ UnsetCommand
     /\ RecordsOf(manifest, ProtectId) # <<>>
     /\ RecordsOf(manifest, ProtectId)[1].immutable
     /\ IsLocked(ProtectPath)
     /\ ret'.id = ProtectId)
      => (ret'.ok /\ IsLocked(ProtectPath)')
  ]_vars

NextProtect ==
  \/ AddProtected
  \/ SetCommand
  \/ UnsetCommand
  \/ MakeImmutable
  \/ MakeMutable
  \/ WithWriteAccess
  \/ EditCommand

SpecProtect == InitProtect /\ [][NextProtect]_vars

(***************************************************************************)
(* SpecRotate: envmatic change-password and envmatic rotate-key on a vault *)
(* with one file, which envmatic add stores, with encryption by password   *)
(* enabled at init or not.  At add the user types the vault's first        *)
(* password.                                                               *)
(***************************************************************************)
NewPassword == "newpasswd34"
KeyPaths == SshKeyFiles \cup {"~/.ssh/missing"}
Methods == {"password", "ssh", "none"}

InitRotate ==
  \E enc \in BOOLEAN, immutableByDefault \in BOOLEAN :
    InitializedVault(createInitialConfig(enc, IF enc THEN "password" ELSE "none", "",
                                         immutableByDefault))

\* res: the current password typed and the new one chosen.
ChangePasswordCommand ==
  \E oldPassword \in Passwords \cup {NewPassword} :
    \E newPassword \in {VaultPassword, NewPassword} \ {oldPassword} :
      LET w == changePasswordCommand(World, oldPassword, newPassword, 3)
      IN  /\ Bounded(w)
          /\ Apply(Caught(w), [Ret("change-password", w, "", "")
                                 EXCEPT !.res = [current |-> oldPassword,
                                                 new |-> newPassword],
                                        !.how = "password"])

\* res: the current password typed and the new one chosen; how: the method
\* chosen.
RotateKeyCommand ==
  \E password \in Passwords \cup {NewPassword}, newMethod \in Methods,
     keyPath \in KeyPaths, confirmed \in BOOLEAN :
    LET w == rotateKeyCommand(World, password, newMethod, NewPassword, keyPath,
                              confirmed, 3)
    IN  /\ Bounded(w)
        /\ Apply(Caught(w), [Ret("rotate-key", w, "", "")
                               EXCEPT !.res = [current |-> password,
                                               new |-> NewPassword],
                                      !.how = newMethod])

NextRotate ==
  \/ AddProtected
  \/ ChangePasswordCommand
  \/ RotateKeyCommand

SpecRotate == InitRotate /\ [][NextRotate]_vars

\* The current credentials open every encrypted file of the vault.
Opens(password) ==
  \A i \in 1..Len(manifest.files) :
    manifest.files[i].encrypted
      => Ok(readEnvFile(World, manifest.files[i].id, currentOptions(World, password)))

\* Every file of the manifest can be read with the options the
\* configuration gives (and the password typed at the prompt).
Readable(password) ==
  \A i \in 1..Len(manifest.files) :
    Ok(readEnvFile(World, manifest.files[i].id, getEncryptionOptions(World, password)))

(***************************************************************************)
(* C25: change-password and rotate-key given a current password that does  *)
(* not open the vault's encrypted files stop at the verification: they     *)
(* report that the current password is incorrect and leave every file and  *)
(* setting as it was.                                                      *)
(***************************************************************************)
C25_WrongCurrentPasswordAborts ==
  [][
    (/\ ChangePasswordCommand \/ RotateKeyCommand
     /\ cfg.encryptionEnabled /\ cfg.encryptionMethod = "password"
     /\ ~Opens(ret'.res.current))
      => /\ ~ret'.ok
         /\ ret'.err \in {"Current password is incorrect",
                          "Current password is incorrect. Cannot proceed."}
         /\ UNCHANGED <<cfg, manifest, blobs, locked, uchg, salt, head, log>>
  ]_vars

(***************************************************************************)
(* C26: after rotate-key has completed, started with credentials that open *)
(* the vault, every file of the manifest can be read with the encryption   *)
(* options derived from the resulting configuration; after Disable         *)
(* encryption every file is stored as plaintext with encrypted false.      *)
(***************************************************************************)
C26_RotatedVaultReadable ==
  [][
    (RotateKeyCommand /\ ret'.ok /\ Opens(ret'.res.current))
      => /\ Readable(NewPassword)'
         /\ ret'.how = "none" =>
              \A i \in 1..Len(manifest'.files) :
                /\ ~manifest'.files[i].encrypted
                /\ blobs'[getEnvFilePath(manifest'.files[i].id, FALSE)].kind = "plain"
  ]_vars

(***************************************************************************)
(* SpecCrypt: the encryption service (encrypt, decrypt) called with        *)
(* plaintexts and valid secrets, an envelope being damaged or not between  *)
(* the two, and readEnvFile of a stored file under each password.  The     *)
(* vault's salt, once written, stays.  ret.res carries the plaintext, the  *)
(* options and the envelopes from one call to the next.                    *)
(***************************************************************************)
Plaintexts == {serializeEnvContent(v) : v \in VarSets}
Secrets == {PasswordOptions(p) : p \in Passwords} \cup {SshOptions(k) : k \in SshKeyFiles}
IVs == 1..3

\* What can happen to the bytes of an envelope before it is opened.
Damages == {"none", "flip iv", "flip tag", "flip data", "truncate"}

Damaged(e, damage) ==
  IF damage = "flip iv" THEN [e EXCEPT !.iv = @ + 100]
  ELSE IF damage = "flip tag" THEN [e EXCEPT !.authTag.encrypted.bytes = "flipped"]
  ELSE IF damage = "flip data" THEN [e EXCEPT !.encrypted.bytes = "flipped"]
  ELSE IF damage = "truncate" THEN [e EXCEPT !.encrypted.bytes = "truncated"]
  ELSE e

Encrypt ==
  \E data \in Plaintexts, options \in Secrets, iv \in IVs :
    LET w == encrypt(World, data, options, iv)
    IN  /\ Bounded(w)
        /\ Apply(Caught(w),
                 [Ret("encrypt", w, "", "")
                    EXCEPT !.how = "first",
                           !.res = [data |-> data, options |-> options,
                                    envelopes |-> IF Ok(w) THEN <<w.val>> ELSE <<>>]])

\* The same plaintext sealed a second time under the same secret;
\* crypto.randomBytes returns an IV it has not returned before.
EncryptAgain ==
  /\ ret.op = "encrypt" /\ ret.how = "first" /\ ret.ok
  /\ \E iv \in IVs \ {ret.res.envelopes[1].iv} :
       LET w == encrypt(World, ret.res.data, ret.res.options, iv)
       IN  /\ Bounded(w)
           /\ Apply(Caught(w),
                    [Ret("encrypt", w, "", "")
                       EXCEPT !.how = "again",
                              !.res = [ret.res EXCEPT
                                         !.envelopes = IF Ok(w) THEN Append(@, w.val) ELSE @]])

\* One of the envelopes is opened, damaged or not, with some secret.
Decrypt ==
  /\ ret.op = "encrypt" /\ ret.ok
  /\ \E i \in 1..Len(ret.res.envelopes), options \in Secrets, damage \in Damages :
       LET w == decrypt(World, Damaged(ret.res.envelopes[i], damage), options)
       IN  /\ Bounded(w)
           /\ Apply(Caught(w),
                    [Ret("decrypt", w, "", "")
                       EXCEPT !.how = damage,
                              !.res = [data |-> ret.res.data, sealed |-> ret.res.options,
                                       opened |-> options, envelope |-> i,
                                       text |-> IF Ok(w) THEN w.val ELSE {}]])

\* readEnvFile of the stored file with a password; res: the password and
\* the variables returned.
ReadWithPassword ==
  \E password \in Passwords :
    LET w == readEnvFile(World, RepairId, PasswordOptions(password))
    IN  /\ Bounded(w)
        /\ Apply(Caught(w),
                 [Ret("readEnvFile", w, RepairId, "")
                    EXCEPT !.res = [password |-> password,
                                    returned |-> IF Ok(w) THEN {w.val.variables} ELSE {}]])

NextCrypt ==
  \/ Encrypt
  \/ EncryptAgain
  \/ Decrypt
  \/ StoreFile
  \/ ReadWithPassword

SpecCrypt == InitLink /\ [][NextCrypt]_vars

(***************************************************************************)
(* C27: for every plaintext P and valid secret S, with the salt fixed,     *)
(* encrypt succeeds and decrypt(encrypt(P, S), S) returns P; two encrypt   *)
(* calls on P and S give two different envelopes and both decrypt to P.    *)
(***************************************************************************)
C27_DecryptInvertsEncrypt ==
  /\ ret.op = "encrypt" =>
       /\ ret.ok
       /\ ret.how = "again" => ret.res.envelopes[1] # ret.res.envelopes[2]
  /\ (ret.op = "decrypt" /\ ret.how = "none" /\ ret.res.opened = ret.res.sealed)
       => (ret.ok /\ ret.res.text = ret.res.data)

\* The second of two envelopes of one plaintext was opened and gave it.
C27_Witness ==
  /\ ret.op = "decrypt" /\ ret.ok
  /\ ret.res.envelope = 2
  /\ ret.res.text = ret.res.data
  /\ ret.res.opened = SshOptions("~/.ssh/id_rsa")

\* The key (password) a stored envelope was sealed under.
SealedUnder(path) == blobs[path].authTag.key.material

C10_CopiesHoldCurrentVariables ==
  (ret.ok /\ ret.op \in {"add", "set", "unset"}) =>
     \A i \in 1..Len(links) :
       (links[i].sourceId = ret.id /\ links[i].type = "copy") =>
          fs[links[i].targetPath] = PlainFile(CurrentText(ret.id))

(***************************************************************************)
(* Bootstrap: init, with and without --force, against an empty remote or   *)
(* one with history, where git may reject a command of initRepository.     *)
(***************************************************************************)
InitCommandGit ==
  \E force \in BOOLEAN, method \in {"none", "password"}, rejects \in GitRejects :
    LET w == initCommand([World EXCEPT !.rejects = rejects], force, method,
                         VaultPassword, FALSE, 1)
    IN  /\ Bounded(w)
        /\ Apply(Caught(w), [RetHow("init", w, w.val) EXCEPT !.res = force])

NextInit == InitCommandGit \/ AddCommand \/ SetCommand

SpecInit == InitGit /\ [][NextInit]_vars

(***************************************************************************)
(* C29: after any run of initCommand, init --force over an existing        *)
(* installation included, a configured system has its vault repository     *)
(* locally: isConfigured() implies isVaultInitialized().  A run in which    *)
(* both the clone and the initialization fail leaves no configuration.     *)
(***************************************************************************)
C29_ConfiguredImpliesVault ==
  ret.op = "init" =>
    /\ isConfigured(World) => isVaultInitialized(World)
    /\ (~ret.ok /\ ret.err # "Envmatic is already initialized."
          /\ ret.err # "Encryption verification failed") => ~isConfigured(World)

(***************************************************************************)
(* SpecAuto: copies registered by envmatic link, with and without          *)
(* --auto-sync, of a file that set, unset and edit then change.            *)
(***************************************************************************)
LinkCommand ==
  \E t \in LinkTargets, copy \in BOOLEAN, autoSync \in BOOLEAN :
    LET w == linkCommand(World, ProtectId, t, copy, autoSync, VaultPassword)
    IN  /\ Bounded(w)
        /\ Apply(Caught(w), [Ret("link", w, ProtectId, resolve(t))
                               EXCEPT !.res = autoSync])

NextAuto == AddProtected \/ LinkCommand \/ SetCommand \/ UnsetCommand \/ EditCommand

SpecAuto == InitLink /\ [][NextAuto]_vars

(***************************************************************************)
(* C31: set, unset and the save of edit leave every copy registered with   *)
(* autoSync false as it was; only copies registered with autoSync true are *)
(* rewritten by them.                                                      *)
(***************************************************************************)
C31_ManualCopiesLeftAlone ==
  [][ ret'.op \in {"set", "unset", "edit"} =>
        \A i \in 1..Len(links) :
          (links[i].type = "copy" /\ ~links[i].autoSync) =>
             fs'[links[i].targetPath] = fs[links[i].targetPath] ]_vars

(***************************************************************************)
(* SpecEditor: envmatic edit --editor and envmatic lock on a vault with or  *)
(* without encryption.                                                     *)
(***************************************************************************)
\* how: what was done in the editor and its exit code; res: the message.
EditorCommand ==
  \E found \in BOOLEAN, edit \in Edits, code \in {0, 1}, shouldLock \in BOOLEAN :
    LET w == editCommandEditor(World, ProtectId, VaultPassword, found, edit, code,
                               shouldLock, 2)
    IN  /\ Bounded(w)
        /\ Apply(Caught(w), [Ret("editor", w, ProtectId, "")
                               EXCEPT !.how = edit \o (IF code = 0 THEN ", exit 0"
                                                                           ELSE ", exit 1"),
                                      !.res = IF Ok(w) THEN w.val ELSE ""])

\* envmatic lock <id> and envmatic lock --all; res: what it reported.
LockCommand ==
  \E fileId \in {ProtectId, ""}, shouldSync \in BOOLEAN :
    LET w == lockCommand(World, fileId, shouldSync, VaultPassword, 3)
    IN  /\ Bounded(w)
        /\ Apply(Caught(w), [Ret("lock", w, fileId, "") EXCEPT !.res = w.val])

NextEditor == AddProtected \/ EditorCommand \/ LockCommand

SpecEditor == InitRotate /\ [][NextEditor]_vars

(***************************************************************************)
(* C32: when edit --editor has finished (nothing changed, changes saved,   *)
(* the editor exited non-zero, or the save threw), the temporary decrypted *)
(* file does not exist.                                                    *)
(***************************************************************************)
C32_TempFileRemoved ==
  ret.op = "editor" => fs[TempFile] = NoFile

\* The save of an encrypted file's edit threw, after the temporary file was
\* written.
C32_Witness ==
  /\ ret.op = "editor" /\ ret.how = "set, exit 0"
  /\ ret.res = "Editor error: EACCES: permission denied"
  /\ RecordsOf(manifest, ProtectId) # <<>>
  /\ RecordsOf(manifest, ProtectId)[1].encrypted

(***************************************************************************)
(* SpecLock: envmatic lock on each platform, of a file that may have been  *)
(* unlocked again or removed from the vault directory.                     *)
(***************************************************************************)
\* The vault file of the record is removed from outside (rm, a checkout).
FileRemoved ==
  /\ RecordsOf(manifest, ProtectId) # <<>>
  /\ vaultPathExists(World, ProtectPath)
  /\ Apply(removeVaultFile(World, ProtectPath), Ret("rm", World, ProtectId, ProtectPath))

NextLock == AddProtected \/ LockCommand \/ MakeMutable \/ FileRemoved

SpecLock == InitProtect /\ [][NextLock]_vars

(***************************************************************************)
(* C33: lockCommand reports the file as locked ('File locked', or counted  *)
(* in 'Locked n file(s)') only if isImmutable holds for it afterwards, and *)
(* a file it tried to lock that is not immutable afterwards (the primitive *)
(* failed, the file is missing) is reported as failed.                     *)
(***************************************************************************)
C33_LockedOnlyIfImmutable ==
  [][ (ret'.op = "lock" /\ ret'.ok) =>
        /\ ret'.res.locked > 0 => IsLocked(ProtectPath)'
        /\ (ret'.res.locked + ret'.res.failed > 0 /\ ~IsLocked(ProtectPath)')
              => ret'.res.failed > 0 ]_vars

(***************************************************************************)
(* C34: after any sequence of createEnvFile, updateEnvFile and             *)
(* deleteEnvFile, each id has one record at most; an id with a record has  *)
(* its blob at the path of the record's encrypted flag and none at the     *)
(* other path; an id without a record has no blob at either path.          *)
(***************************************************************************)
C34_OneBlobPerRecord ==
  \A id \in FileIds :
    /\ Len(RecordsOf(manifest, id)) <= 1
    /\ \A enc \in BOOLEAN :
         vaultPathExists(World, getEnvFilePath(id, enc))
           <=> (RecordsOf(manifest, id) # <<>> /\ RecordsOf(manifest, id)[1].encrypted = enc)

(***************************************************************************)
(* SpecPassword: add, set and change-password in password mode, each with  *)
(* the password typed at its prompt.                                       *)
(***************************************************************************)
InitPassword == InitializedVault(createInitialConfig(TRUE, "password", "", FALSE))

\* res: the password typed.
AddWithPassword ==
  \E e \in Environments, password \in Passwords :
    LET w == addCommand(World, "a", e, [k \in Keys |-> "3000"], password, 1)
    IN  /\ Bounded(w)
        /\ Apply(Caught(w), [Ret("add", w, generateFileId("a", e, DEFAULT_NAME), "")
                               EXCEPT !.res = password])

SetWithPassword ==
  \E id \in AddIds, password \in Passwords :
    LET w == setCommand(World, id, "PORT", "a b", password, 2)
    IN  /\ Bounded(w)
        /\ Apply(Caught(w), [Ret("set", w, id, "") EXCEPT !.res = password])

NextPassword == AddWithPassword \/ SetWithPassword \/ ChangePasswordCommand

SpecPassword == InitPassword /\ [][NextPassword]_vars

(***************************************************************************)
(* C35: in password mode, after any sequence of add, set and               *)
(* change-password commands, all encrypted blobs of the vault are sealed   *)
(* under one and the same password.                                        *)
(***************************************************************************)
C35_OnePasswordPerVault ==
  \A p \in VaultPaths, q \in VaultPaths :
    (blobs[p].kind = "sealed" /\ blobs[q].kind = "sealed")
      => SealedUnder(p) = SealedUnder(q)

(***************************************************************************)
(* C36: unlink of a path that has no record in the registry returns false  *)
(* and leaves what is at the path, and the registry, as they were.         *)
(***************************************************************************)
C36_UnlinkUnregisteredLeavesPath ==
  [][ (ret'.op = "unlink" /\ ~Registered(links, ret'.target)) =>
        /\ ret'.res = FALSE
        /\ links' = links
        /\ fs'[ret'.target] = fs[ret'.target] ]_vars

(***************************************************************************)
(* C37: while config.encryptionEnabled is true, a createEnvFile that       *)
(* returns has made a record with encrypted true and has written no        *)
(* plaintext file; without usable encryption options it fails.             *)
(***************************************************************************)
C37_NoPlaintextWhenEncryptionEnabled ==
  [][ (CreateEnvFile /\ cfg.encryptionEnabled /\ ret'.ok) =>
        /\ RecordsOf(manifest', ret'.id) # <<>>
        /\ RecordsOf(manifest', ret'.id)[1].encrypted
        /\ blobs'[getEnvFilePath(ret'.id, FALSE)] = blobs[getEnvFilePath(ret'.id, FALSE)]
  ]_vars

(***************************************************************************)
(* C38: after any sequence of createEnvFile, createSymlink, createCopy,    *)
(* unlink and deleteEnvFile, every link record's sourceId is the id of a   *)
(* record of the manifest.                                                 *)
(***************************************************************************)
C38_NoLinkOutlivesSource ==
  \A i \in 1..Len(links) : RecordsOf(manifest, links[i].sourceId) # <<>>

=============================================================================
